---- MODULE Spec2Model ----
(***************************************************************************)
(* A model of the centy daemon's filesystem state machine:                 *)
(*   - the managed-file catalog, the manifest store, the reconciliation    *)
(*     planner and executor (src/src/reconciliation, src/src/manifest);    *)
(*   - the issue and doc stores and the display-number reconciler          *)
(*     (src/src/issue, src/src/docs);                                      *)
(*   - the migration executor (src/src/migration);                         *)
(*   - the global project registry (src/src/registry).                     *)
(*                                                                         *)
(* A path relative to .centy/ is a triple of components whose              *)
(* concatenation is the path string: <<"templates/", "README.md", "">>     *)
(* is "templates/README.md".  Directory components end with "/", as the    *)
(* planner's scan and the manifest write them.  A file's bytes are a       *)
(* tagged tuple: <<"text", s>> for text, <<"bytes", s>> for bytes that are *)
(* not UTF-8, <<"md", ..>>, <<"json", ..>>, <<"doc", ..>> and              *)
(* <<"config", ..>> for the texts the daemon generates from structured     *)
(* values.  SHA-256 is modelled as an injective function of the bytes.     *)
(* Timestamps are naturals ordered like the ISO strings of now_iso().      *)
(***************************************************************************)
EXTENDS Integers, Sequences, FiniteSets, TLC

VARIABLES
    dirs,           \* directories that exist under <project>/.centy/ (RootDir is .centy/ itself)
    files,          \* path -> bytes, for the regular files that exist under .centy/
    manifestFile,   \* .centy/.centy-manifest.json: [exists, managedFiles as serialized]
    last,           \* the last request served (or environment step) and its result
    mig,            \* the migration registry and the Migrate call in progress
    regFile,        \* ~/.centy/projects.json
    regTmp,         \* ~/.centy/projects.json.tmp
    regLock,        \* holder of REGISTRY_LOCK (0: free)
    tasks,          \* the spawned track/untrack tasks: position and locals
    reader,         \* a list_projects / get_project_info call, which takes no lock
    serialReg,      \* the registry obtained by applying the saved calls one after another
    reqs,           \* the issue requests in progress: position and locals
    daemon          \* the server process: shutdown signal, Restart and Shutdown tasks

projVars == <<dirs, files, manifestFile, last>>
migVars == <<mig>>
regVars == <<regFile, regTmp, regLock, tasks, reader, serialReg>>
reqVars == <<reqs, daemon>>
vars == <<dirs, files, manifestFile, last, mig, regFile, regTmp, regLock, tasks, reader,
          serialReg, reqs, daemon>>

-----------------------------------------------------------------------------
(* The daemon process (src/src/main.rs, src/src/server/mod.rs): the watch    *)
(* channel that carries the shutdown signal, and the tasks that the Restart *)
(* and Shutdown handlers spawn                                              *)

\* Restart requests taken by one daemon process
MaxRestarts == 2

RestartIds == 1..MaxRestarts

\* a Restart or Shutdown request not made yet; response is the success
\* field of the reply ("none": no reply yet), child the outcome of
\* Command::spawn
IdleCall == [pc |-> "idle", delay |-> 0, response |-> "none", child |-> "none"]

\* main: watch::channel(ShutdownSignal::None), the service built with
\* std::env::current_exe().ok(), the server serving
NewDaemon(exe_path) ==
    [ exe_path |-> exe_path, signal |-> "None", serving |-> TRUE,
      restarts |-> [i \in RestartIds |-> IdleCall], shutdown |-> IdleCall ]

\* the restart handler, up to its reply: without an executable path it
\* replies success: false; otherwise it spawns the task and replies
\* success: true
Restart(i, delay) ==
    /\ daemon.serving
    /\ daemon.restarts[i].pc = "idle"
    /\ daemon' = [daemon EXCEPT !.restarts[i] =
                     IF ~daemon.exe_path
                     THEN [IdleCall EXCEPT !.pc = "returned", !.delay = delay,
                                           !.response = "failure"]
                     ELSE [IdleCall EXCEPT !.pc = IF delay > 0 THEN "sleeping" ELSE "ready",
                                           !.delay = delay, !.response = "success"]]
    /\ UNCHANGED <<projVars, migVars, regVars, reqs>>

\* the spawned task: tokio::time::sleep returns
RestartWake(i) ==
    /\ daemon.serving
    /\ daemon.restarts[i].pc = "sleeping"
    /\ daemon' = [daemon EXCEPT !.restarts[i].pc = "ready"]
    /\ UNCHANGED <<projVars, migVars, regVars, reqs>>

\* the spawned task: Command::new(&exe_path).spawn() returns Ok or Err; on
\* Err the task logs and ends
RestartSpawn(i, ok) ==
    /\ daemon.restarts[i].pc = "ready"
    /\ daemon' = [daemon EXCEPT !.restarts[i].pc = IF ok THEN "spawned" ELSE "returned",
                                !.restarts[i].child = IF ok THEN "spawned" ELSE "failed"]
    /\ UNCHANGED <<projVars, migVars, regVars, reqs>>

\* the spawned task: shutdown_tx.send(ShutdownSignal::Restart)
RestartSignal(i) ==
    /\ daemon.restarts[i].pc = "spawned"
    /\ daemon' = [daemon EXCEPT !.restarts[i].pc = "returned", !.signal = "Restart"]
    /\ UNCHANGED <<projVars, migVars, regVars, reqs>>

\* the shutdown handler, up to its reply
Shutdown(delay) ==
    /\ daemon.serving
    /\ daemon.shutdown.pc = "idle"
    /\ daemon' = [daemon EXCEPT !.shutdown =
                     [IdleCall EXCEPT !.pc = IF delay > 0 THEN "sleeping" ELSE "ready",
                                      !.delay = delay, !.response = "success"]]
    /\ UNCHANGED <<projVars, migVars, regVars, reqs>>

ShutdownWake ==
    /\ daemon.serving
    /\ daemon.shutdown.pc = "sleeping"
    /\ daemon' = [daemon EXCEPT !.shutdown.pc = "ready"]
    /\ UNCHANGED <<projVars, migVars, regVars, reqs>>

\* shutdown_tx.send(ShutdownSignal::Shutdown)
ShutdownSignal ==
    /\ daemon.shutdown.pc = "ready"
    /\ daemon' = [daemon EXCEPT !.shutdown.pc = "returned", !.signal = "Shutdown"]
    /\ UNCHANGED <<projVars, migVars, regVars, reqs>>

\* main, the future given to serve_with_shutdown: the loop ends when the
\* channel holds Shutdown or Restart, and the server stops
ServerStop ==
    /\ daemon.serving
    /\ daemon.signal # "None"
    /\ daemon' = [daemon EXCEPT !.serving = FALSE]
    /\ UNCHANGED <<projVars, migVars, regVars, reqs>>

-----------------------------------------------------------------------------
(* Bounds *)

\* number of iteration orders of the catalog HashMap that are explored
MaxOrders == 1

\* largest number of paths named in decisions.restore and in decisions.reset
MaxDecided == 1

\* largest number of issue folders
MaxIssues == 4

\* number of orders explored for read_dir and for the iteration of the
\* by_display_number HashMap
MaxDirOrders == 2

\* timestamps are 1..MaxStamp
MaxStamp == 2

\* the small display numbers a synced issue may carry are 0..MaxDisplay
MaxDisplay == 1

\* largest number of issue folders, and of docs, that the CRUD requests use
MaxOpen == 2

\* CreateIssue requests are made while the next display number is at most this
MaxNumber == 3

\* versions the migrations of a registry go between
MaxVersions == 4

\* concurrent track/untrack tasks
MaxTasks == 2

-----------------------------------------------------------------------------
(* Paths and their byte order *)

RootDir == <<"", "", "">>

PathStr(p) == p[1] \o p[2] \o p[3]

\* Position of a path component in ASCII (byte) order, the order of
\* String::cmp used by write_manifest's sort_by.
CompOrder ==
    << "", ".md", "0001/", "README.md", "README.md/", "a1/", "assets/", "b2/", "bug.md", "c3/",
       "config.json", "d4/", "docs/", "e5/", "f6/", "guide.md", "intro.md", "issue.md",
       "issues", "issues/", "metadata.json", "notes.md", "notes.txt", "templates/" >>

CompRankOf ==
    [c \in {CompOrder[i] : i \in 1..Len(CompOrder)} |->
        CHOOSE i \in 1..Len(CompOrder) : CompOrder[i] = c]

CompRank(c) == CompRankOf[c]

\* a.path.cmp(&b.path) = Less
PathLess(p, q) ==
    \/ CompRank(p[1]) < CompRank(q[1])
    \/ /\ p[1] = q[1]
       /\ \/ CompRank(p[2]) < CompRank(q[2])
          \/ /\ p[2] = q[2]
             /\ CompRank(p[3]) < CompRank(q[3])

\* Path::parent(), relative to .centy/
Parent(p) ==
    IF p[3] # "" THEN <<p[1], p[2], "">>
    ELSE IF p[2] # "" THEN <<p[1], "", "">>
    ELSE RootDir

\* the directories fs::create_dir_all(p) makes sure exist
RECURSIVE Ancestors(_)
Ancestors(p) == IF p = RootDir THEN {RootDir} ELSE {p} \cup Ancestors(Parent(p))

\* p is q or lies below directory q
Under(p, q) ==
    \/ q = RootDir
    \/ p = q
    \/ q[2] = "" /\ p[1] = q[1]
    \/ q[3] = "" /\ q[2] # "" /\ p[1] = q[1] /\ p[2] = q[2]

-----------------------------------------------------------------------------
(* File contents and hashing *)

\* The element of a singleton set.  {F(x) : x \in {e}} evaluates e once,
\* where LET x == e would evaluate it again at every use of x.
Eval(S) == CHOOSE x \in S : TRUE

Text(s) == <<"text", s>>

\* bytes that are not valid UTF-8: fs::read_to_string fails on them
InvalidUtf8 == <<"bytes", "\\xff">>

\* String::new(), the hash recorded for directories and the default of
\* unwrap_or_default()
EmptyHash == << >>

compute_hash(content) == <<"sha256", content>>

\* compute_file_hash(path).await.unwrap_or_default()
compute_file_hash_or_default(fs, p) ==
    IF p \in DOMAIN fs /\ fs[p][1] # "bytes" THEN compute_hash(fs[p]) ELSE EmptyHash

-----------------------------------------------------------------------------
(* The record of the last request *)

\* op: the request; ok: whether it completed successfully; force, restore,
\* reset: the arguments of Execute; id: the issue folder or doc file the
\* request named or created; id2: the doc file an UpdateDoc renamed to;
\* before: the disk a cancelled Execute started from; retry: the Execute
\* directly follows a cancelled Execute that had the same arguments;
\* options: the options of a CreateIssue or UpdateIssue
Done(op, ok) ==
    [ op |-> op, ok |-> ok, force |-> FALSE, restore |-> {}, reset |-> {},
      id |-> "", id2 |-> "", before |-> << >>, retry |-> FALSE, options |-> << >> ]

-----------------------------------------------------------------------------
(* Managed-file catalog *)

README_CONTENT == Text("# Centy Project ...")
TEMPLATES_README_CONTENT == Text("# Templates ...")
NoContent == Text("<none>")

get_managed_files ==
    ( <<"issues/", "", "">>            :> [file_type |-> "directory", content |-> NoContent] ) @@
    ( <<"docs/", "", "">>              :> [file_type |-> "directory", content |-> NoContent] ) @@
    ( <<"assets/", "", "">>            :> [file_type |-> "directory", content |-> NoContent] ) @@
    ( <<"README.md", "", "">>          :> [file_type |-> "file", content |-> README_CONTENT] ) @@
    ( <<"templates/", "", "">>         :> [file_type |-> "directory", content |-> NoContent] ) @@
    ( <<"templates/", "issues/", "">>  :> [file_type |-> "directory", content |-> NoContent] ) @@
    ( <<"templates/", "docs/", "">>    :> [file_type |-> "directory", content |-> NoContent] ) @@
    ( <<"templates/", "README.md", "">> :> [file_type |-> "file", content |-> TEMPLATES_README_CONTENT] )

CatalogPaths == DOMAIN get_managed_files
CatalogFiles == {p \in CatalogPaths : get_managed_files[p].file_type = "file"}

\* template.content.as_ref().map(|c| compute_hash(c)).unwrap_or_default()
TemplateHash(p) ==
    IF get_managed_files[p].content = NoContent THEN EmptyHash
    ELSE compute_hash(get_managed_files[p].content)

\* The catalog is a HashMap: its iteration order is unspecified.  The orders
\* explored are the first MaxOrders of these permutations.
CatalogOrders ==
    << << <<"templates/", "README.md", "">>, <<"templates/", "docs/", "">>,
          <<"README.md", "", "">>, <<"templates/", "issues/", "">>,
          <<"issues/", "", "">>, <<"templates/", "", "">>,
          <<"assets/", "", "">>, <<"docs/", "", "">> >>,
       << <<"issues/", "", "">>, <<"docs/", "", "">>, <<"assets/", "", "">>,
          <<"README.md", "", "">>, <<"templates/", "", "">>,
          <<"templates/", "issues/", "">>, <<"templates/", "docs/", "">>,
          <<"templates/", "README.md", "">> >>,
       << <<"README.md", "", "">>, <<"assets/", "", "">>, <<"docs/", "", "">>,
          <<"issues/", "", "">>, <<"templates/", "", "">>,
          <<"templates/", "README.md", "">>, <<"templates/", "docs/", "">>,
          <<"templates/", "issues/", "">> >> >>

IterOrders == {CatalogOrders[i] : i \in 1..(IF MaxOrders < 3 THEN MaxOrders ELSE 3)}


-----------------------------------------------------------------------------
(* Manifest store (src/src/manifest/mod.rs) *)

\* The bytes of the manifest file are its entries followed by rest: the
\* closing of the JSON document and whatever an earlier, longer write left
\* behind it.  The file parses exactly when rest is the closing alone.
Closing == [path |-> <<"]}", "", "">>, hash |-> << >>, file_type |-> "closing"]

NoManifest == [exists |-> FALSE, managedFiles |-> << >>, rest |-> << >>]

\* create_manifest(): a manifest with no managed files
create_manifest == << >>

create_managed_file(path, hash, file_type) ==
    [path |-> path, hash |-> hash, file_type |-> file_type]

\* manifest.managed_files.retain(|f| f.path != file.path); push(file)
add_file_to_manifest(m, file) ==
    LET Keep(f) == f.path # file.path
    IN  Append(SelectSeq(m, Keep), file)

\* manifest.managed_files.iter().find(|f| f.path == path).is_some()
find_managed_file(m, path) == \E i \in 1..Len(m) : m[i].path = path

\* Vec::sort_by(|a, b| a.path.cmp(&b.path)): a stable sort, here by
\* insertion of the head before the first element that is not smaller
\* x inserted into the sorted sequence rest, before the first element that
\* is not smaller than x
InsertByPath(x, rest) ==
    LET NotSmaller == {i \in 1..Len(rest) : ~PathLess(rest[i].path, x.path)}
        j == IF NotSmaller = {} THEN Len(rest) + 1
             ELSE CHOOSE i \in NotSmaller : \A k \in NotSmaller : i <= k
    IN  SubSeq(rest, 1, j - 1) \o <<x>> \o SubSeq(rest, j, Len(rest))

RECURSIVE SortByPath(_)
SortByPath(m) ==
    IF Len(m) <= 1 THEN m
    ELSE Eval({InsertByPath(Head(m), rest) : rest \in {SortByPath(Tail(m))}})

\* the bytes write_manifest saves
Serialized(m) == [exists |-> TRUE, managedFiles |-> SortByPath(m), rest |-> <<Closing>>]

\* a write that keeps the order of the entries in memory
write_manifest_unsorted(m) == [exists |-> TRUE, managedFiles |-> m, rest |-> <<Closing>>]

\* write_manifest(project_path, &manifest)
write_manifest(m) == Serialized(m)

\* read_manifest(project_path)?.unwrap_or_else(create_manifest)
read_manifest_or_create(mf) == IF mf.exists THEN mf.managedFiles ELSE create_manifest
-----------------------------------------------------------------------------
(* Reconciliation planner (src/src/reconciliation/plan.rs) *)

\* scan_centy_folder: every path below .centy/ (min_depth 1), the manifest
\* file skipped, directories with a trailing slash
scan_centy_folder(ds, fs) ==
    IF RootDir \notin ds THEN {} ELSE (ds \ {RootDir}) \cup DOMAIN fs

FileInfo(path, file_type, hash) == [path |-> path, file_type |-> file_type, hash |-> hash]

\* the FileInfo the planner builds for a catalog path before classifying it
TemplateInfo(p) == FileInfo(p, get_managed_files[p].file_type, TemplateHash(p))

\* classification of one catalog path: the branch of the loop body taken
Classify(ds, fs, mf, p) ==
    LET exists_on_disk == p \in scan_centy_folder(ds, fs)
        in_manifest    == mf.exists /\ find_managed_file(mf.managedFiles, p)
    IN  IF ~exists_on_disk
        THEN (IF in_manifest THEN "to_restore" ELSE "to_create")
        ELSE IF get_managed_files[p].file_type = "directory" THEN "up_to_date"
        ELSE IF get_managed_files[p].content = NoContent THEN "up_to_date"
        ELSE IF compute_file_hash_or_default(fs, p) = TemplateHash(p) THEN "up_to_date"
        ELSE "to_reset"

PlanInfo(ds, fs, mf, p) ==
    IF Classify(ds, fs, mf, p) = "to_reset"
    THEN FileInfo(p, get_managed_files[p].file_type, compute_file_hash_or_default(fs, p))
    ELSE TemplateInfo(p)

\* the planner's loop over the catalog: class and FileInfo of every path
PlanTable(ds, fs, mf) ==
    [p \in CatalogPaths |->
        [class |-> Classify(ds, fs, mf, p), info |-> PlanInfo(ds, fs, mf, p)]]

\* the FileInfos of the catalog paths of one class, in iteration order
RECURSIVE PlanList(_, _, _)
PlanList(table, order, class) ==
    IF order = << >> THEN << >>
    ELSE (IF table[Head(order)].class = class
          THEN <<table[Head(order)].info>> ELSE << >>)
         \o PlanList(table, Tail(order), class)

\* build_reconciliation_plan; order is the iteration order of the catalog
build_reconciliation_plan(ds, fs, mf, order) ==
    LET D == scan_centy_folder(ds, fs)
        Lists(table) ==
            [ to_create  |-> PlanList(table, order, "to_create"),
              to_restore |-> PlanList(table, order, "to_restore"),
              to_reset   |-> PlanList(table, order, "to_reset"),
              up_to_date |-> PlanList(table, order, "up_to_date"),
              user_files |-> { FileInfo(d,
                                        IF d \in ds THEN "directory" ELSE "file",
                                        IF d \in ds THEN EmptyHash
                                        ELSE compute_file_hash_or_default(fs, d))
                               : d \in D \ CatalogPaths } ]
    IN  Eval({Lists(table) : table \in {PlanTable(ds, fs, mf)}})

PathsOf(infos) == {infos[i].path : i \in 1..Len(infos)}

\* ReconciliationPlan::needs_decisions
needs_decisions(plan) == plan.to_restore # << >> \/ plan.to_reset # << >>

-----------------------------------------------------------------------------
(* Reconciliation executor (src/src/reconciliation/execute.rs) *)

\* a name with and without the trailing slash that marks a directory
SlashPairs == << <<"issues", "issues/">>, <<"README.md", "README.md/">> >>

\* relative_path.trim_end_matches('/') of one component
NoSlash(c) ==
    IF \E i \in 1..Len(SlashPairs) : SlashPairs[i][2] = c
    THEN SlashPairs[CHOOSE i \in 1..Len(SlashPairs) : SlashPairs[i][2] = c][1]
    ELSE c

WithSlash(c) ==
    IF \E i \in 1..Len(SlashPairs) : SlashPairs[i][1] = c
    THEN SlashPairs[CHOOSE i \in 1..Len(SlashPairs) : SlashPairs[i][1] = c][2]
    ELSE c

\* the path of the regular file that has the name of directory p
AsFile(p) ==
    IF p[3] # "" THEN <<p[1], p[2], NoSlash(p[3])>>
    ELSE IF p[2] # "" THEN <<p[1], NoSlash(p[2]), "">>
    ELSE <<NoSlash(p[1]), "", "">>

\* the path of the directory that has the name of regular file p
AsDir(p) ==
    IF p[3] # "" THEN <<p[1], p[2], WithSlash(p[3])>>
    ELSE IF p[2] # "" THEN <<p[1], WithSlash(p[2]), "">>
    ELSE <<WithSlash(p[1]), "", "">>

\* no bound on the filesystem calls of a run that is not cancelled
Unlimited == 0 - 1

\* One filesystem call of a run.  st is [ds, fs, m, stop, left]: directories,
\* files, the in-memory manifest, why the run stopped ("" while it runs) and
\* the number of filesystem calls it may still make before it is cancelled.
\* ok: whether the call succeeds; ds, fs: the disk after a successful call.
FsCall(st, ok, ds, fs) ==
    IF st.stop # "" THEN st
    ELSE IF st.left = 0 THEN [st EXCEPT !.stop = "cancelled"]
    ELSE IF ~ok THEN [st EXCEPT !.stop = "error"]
    ELSE [st EXCEPT !.ds = ds, !.fs = fs,
                    !.left = IF @ = Unlimited THEN @ ELSE @ - 1]

\* a create_dir_all that removes a regular file standing in its way
MkdirAll_ReplacesFile(st, p) ==
    FsCall(st, TRUE, st.ds \cup Ancestors(p),
           [q \in {f \in DOMAIN st.fs : \A a \in Ancestors(p) : AsFile(a) # f} |-> st.fs[q]])

\* fs::create_dir_all(p): fails when a regular file has the name of p or of
\* one of its ancestors
MkdirAll(st, p) ==
    FsCall(st, \A a \in Ancestors(p) \ {RootDir} : AsFile(a) \notin DOMAIN st.fs,
           st.ds \cup Ancestors(p), st.fs)

\* fs::write(p, content): fails when p is a directory
WriteFile(st, p, content) ==
    FsCall(st, AsDir(p) \notin st.ds /\ Parent(p) \in st.ds,
           st.ds, (p :> content) @@ st.fs)

\* add_file_to_manifest on the manifest of a run that has not stopped
Upsert(st, file) ==
    IF st.stop # "" THEN st ELSE [st EXCEPT !.m = add_file_to_manifest(@, file)]

\* a create_file that records files only
create_file_FilesOnly(st, p) ==
    IF get_managed_files[p].file_type = "directory"
    THEN MkdirAll(st, p)
    ELSE LET content == IF get_managed_files[p].content = NoContent THEN Text("")
                        ELSE get_managed_files[p].content
         IN  Upsert(WriteFile(MkdirAll(st, Parent(p)), p, content),
                    create_managed_file(p, compute_hash(content), "file"))

\* create_file: materialise a catalog path and upsert its manifest entry
create_file(st, p) ==
    IF get_managed_files[p].file_type = "directory"
    THEN Upsert(MkdirAll(st, p), create_managed_file(p, EmptyHash, "directory"))
    ELSE LET content == IF get_managed_files[p].content = NoContent THEN Text("")
                        ELSE get_managed_files[p].content
         IN  Upsert(WriteFile(MkdirAll(st, Parent(p)), p, content),
                    create_managed_file(p, compute_hash(content), "file"))

\* ExecStep with the to_restore loop testing decisions.restore only (force ignored)
ExecStep_IgnoresForce(st, kind, info, restore, reset, force) ==
    CASE kind = "to_create" -> create_file(st, info.path)
      [] kind = "to_restore" ->
            IF info.path \in restore THEN create_file(st, info.path) ELSE st
      [] kind = "to_reset" ->
            IF info.path \in reset THEN create_file(st, info.path)
            ELSE Upsert(st, create_managed_file(info.path, info.hash,
                                                get_managed_files[info.path].file_type))
      [] kind = "up_to_date" ->
            Upsert(st, create_managed_file(info.path, TemplateHash(info.path),
                                           get_managed_files[info.path].file_type))

\* ExecStep with a fourth loop that records nothing
ExecStep_SkipsUpToDate(st, kind, info, restore, reset, force) ==
    CASE kind = "to_create" -> create_file(st, info.path)
      [] kind = "to_restore" ->
            IF force \/ info.path \in restore THEN create_file(st, info.path) ELSE st
      [] kind = "to_reset" ->
            IF info.path \in reset THEN create_file(st, info.path)
            ELSE Upsert(st, create_managed_file(info.path, info.hash,
                                                get_managed_files[info.path].file_type))
      [] kind = "up_to_date" -> st

\* one iteration of one of the four loops of execute_reconciliation
ExecStep(st, kind, info, restore, reset, force) ==
    CASE kind = "to_create" -> create_file(st, info.path)
      [] kind = "to_restore" ->
            IF force \/ info.path \in restore THEN create_file(st, info.path) ELSE st
      [] kind = "to_reset" ->
            IF info.path \in reset THEN create_file(st, info.path)
            ELSE Upsert(st, create_managed_file(info.path, info.hash,
                                                get_managed_files[info.path].file_type))
      [] kind = "up_to_date" ->
            Upsert(st, create_managed_file(info.path, TemplateHash(info.path),
                                           get_managed_files[info.path].file_type))

RECURSIVE ExecLoop(_, _, _, _, _, _)
ExecLoop(st, kind, infos, restore, reset, force) ==
    IF infos = << >> \/ st.stop # "" THEN st
    ELSE Eval({ExecLoop(next, kind, Tail(infos), restore, reset, force)
               : next \in {ExecStep(st, kind, Head(infos), restore, reset, force)}})

\* read_manifest(project_path): Err when the file is not one JSON document
read_manifest(mf) ==
    [ err |-> mf.exists /\ mf.rest # <<Closing>>,
      some |-> mf.exists /\ mf.rest = <<Closing>>,
      value |-> mf.managedFiles ]

\* execute_reconciliation up to (not including) the manifest write, making at
\* most left filesystem calls: the resulting directories, files, in-memory
\* manifest and the reason it stopped early, if it did
ExecRun(ds, fs, mf, restore, reset, force, order, left) ==
    LET start == [ds |-> ds, fs |-> fs, m |-> create_manifest, stop |-> "", left |-> left]
        made  == IF RootDir \in ds THEN start ELSE MkdirAll(start, RootDir)
        s0    == IF made.stop # "" THEN made
                 ELSE IF read_manifest(mf).err THEN [made EXCEPT !.stop = "error"]
                 ELSE [made EXCEPT !.m = read_manifest_or_create(mf)]
        Loops(plan) ==
            LET s1 == ExecLoop(s0, "to_create", plan.to_create, restore, reset, force)
                s2 == ExecLoop(s1, "to_restore", plan.to_restore, restore, reset, force)
                s3 == ExecLoop(s2, "to_reset", plan.to_reset, restore, reset, force)
            IN  ExecLoop(s3, "up_to_date", plan.up_to_date, restore, reset, force)
    IN  IF s0.stop # "" THEN s0
        ELSE Eval({Loops(plan) : plan \in {build_reconciliation_plan(s0.ds, fs, mf, order)}})

\* execute_reconciliation run without cancellation
ExecBody(ds, fs, mf, restore, reset, force, order) ==
    ExecRun(ds, fs, mf, restore, reset, force, order, Unlimited)

\* the ReconciliationResult lists
ExecResult(ds, fs, mf, restore, reset, force, order) ==
    LET plan == build_reconciliation_plan(ds \cup {RootDir}, fs, mf, order)
        Restored(i) == force \/ i.path \in restore
        WasReset(i) == i.path \in reset
        NotRestored(i) == ~Restored(i)
        NotReset(i) == ~WasReset(i)
    IN  [ created  |-> PathsOf(plan.to_create),
          restored |-> PathsOf(SelectSeq(plan.to_restore, Restored)),
          reset    |-> PathsOf(SelectSeq(plan.to_reset, WasReset)),
          skipped  |-> PathsOf(SelectSeq(plan.to_restore, NotRestored))
                       \cup PathsOf(SelectSeq(plan.to_reset, NotReset)) ]

\* the manifest file after a run: written when the run reached its end
\* a run that saves its manifest also when it has stopped on an error
SavedManifest_Always(mf, out) == write_manifest(out.m)

SavedManifest(mf, out) == IF out.stop = "" THEN write_manifest(out.m) ELSE mf

\* Init / ExecuteReconciliation request
Execute(restore, reset, force, order) ==
    \E out \in {ExecBody(dirs, files, manifestFile, restore, reset, force, order)} :
        /\ dirs' = out.ds
        /\ files' = out.fs
        /\ manifestFile' = SavedManifest(manifestFile, out)
        /\ last' = [Done("Execute", out.stop = "") EXCEPT
                        !.force = force, !.restore = restore, !.reset = reset,
                        !.retry = /\ last.op = "ExecuteCancelled"
                                  /\ last.force = force
                                  /\ last.restore = restore
                                  /\ last.reset = reset]
        /\ UNCHANGED <<migVars, regVars, reqVars>>

\* an Init / ExecuteReconciliation request whose future is dropped after
\* left filesystem calls, before the manifest is saved
ExecuteCancelled(restore, reset, force, order, left) ==
    \E out \in {ExecRun(dirs, files, manifestFile, restore, reset, force, order, left)} :
        /\ out.stop = "cancelled"
        /\ dirs' = out.ds
        /\ files' = out.fs
        /\ last' = [Done("ExecuteCancelled", FALSE) EXCEPT
                        !.force = force, !.restore = restore, !.reset = reset,
                        !.before = [ds |-> dirs, fs |-> files, mf |-> manifestFile]]
        /\ UNCHANGED <<manifestFile, migVars, regVars, reqVars>>
-----------------------------------------------------------------------------
(* Issue folders and metadata (src/src/issue) *)

\* folder names (UUIDs), written with the trailing slash of a path component
IssueIdSeq == <<"a1/", "b2/", "c3/", "d4/", "e5/", "f6/">>

IssueIds == {IssueIdSeq[i] : i \in 1..(IF MaxIssues < 6 THEN MaxIssues ELSE 6)}

\* is_uuid(name) || is_legacy_number(name)
is_valid_issue_folder(name) == \E i \in 1..Len(IssueIdSeq) : IssueIdSeq[i] = name

IssuesDir == <<"issues/", "", "">>
IssueDir(id) == <<"issues/", id, "">>
IssueMdPath(id) == <<"issues/", id, "issue.md">>
MetadataPath(id) == <<"issues/", id, "metadata.json">>
IssueAssetsDir(id) == <<"issues/", id, "assets/">>

\* A u32 is written as the 32-bit two's-complement integer with the same bits,
\* which is what TLC's integers hold: 0 .. 2^31 - 1 are themselves, and
\* u32::MAX (4294967295, all bits set) is -1.
U32Max == 0 - 1

\* a < b on u32
Less32(a, b) == IF (a < 0) = (b < 0) THEN a < b ELSE b < 0

\* a + 1 on u32: the wrapped sum, and whether it overflowed (a build with
\* overflow checks panics there, a build without them continues)
Inc32(a) == IF a = U32Max THEN [value |-> 0, overflow |-> TRUE]
            ELSE [value |-> a + 1, overflow |-> FALSE]

Stamps == 1..MaxStamp

\* HashMap::new() for custom fields: a map from field names to strings
NoFields == [k \in {} |-> ""]

\* struct IssueMetadata
IssueMetadata(display_number, status, priority, created_at, updated_at, custom_fields) ==
    [ display_number |-> display_number, status |-> status, priority |-> priority,
      created_at |-> created_at, updated_at |-> updated_at,
      custom_fields |-> custom_fields ]

\* IssueMetadata::new
NewIssueMetadata(display_number, status, priority, custom_fields, now) ==
    IssueMetadata(display_number, status, priority, now, now, custom_fields)

\* serde_json::to_string_pretty(&metadata)
MetadataJson(meta) == <<"json", meta>>

\* serde_json::from_str::<IssueMetadata>(content) is Ok
IsMetadataJson(content) == content[1] = "json"

\* the value serde_json::from_str::<IssueMetadata> returns
ParseMetadata(content) == content[2]

\* generate_issue_md(title, description)
generate_issue_md(title, description) ==
    IF description = "" THEN <<"md", title>> ELSE <<"md", title, description>>

\* the folders the scans of issues/ look at: directories with a valid name
\* that hold a metadata.json
IssueFolders(ds, fs) ==
    {id \in {IssueIdSeq[i] : i \in 1..Len(IssueIdSeq)} :
        /\ is_valid_issue_folder(id)
        /\ IssueDir(id) \in ds
        /\ MetadataPath(id) \in DOMAIN fs}

\* the folders whose metadata.json deserializes
ReadableIssues(ds, fs) ==
    {id \in IssueFolders(ds, fs) : IsMetadataJson(fs[MetadataPath(id)])}

MetadataOf(fs, id) == ParseMetadata(fs[MetadataPath(id)])

\* iter().max().unwrap_or(0) on u32
SetMax(S) == IF S = {} THEN 0 ELSE CHOOSE x \in S : \A y \in S : ~Less32(x, y)

\* a next display number that does not look at the issues
get_next_display_number_AlwaysOne(ds, fs) == [value |-> 1, overflow |-> FALSE]

\* a next number that is the count of the readable issues plus one
get_next_display_number_CountPlusOne(ds, fs) ==
    [value |-> Cardinality(ReadableIssues(ds, fs)) + 1, overflow |-> FALSE]

\* get_next_display_number: max + 1 over the readable issues, 1 when issues/
\* does not exist
get_next_display_number(ds, fs) ==
    IF IssuesDir \notin ds THEN [value |-> 1, overflow |-> FALSE]
    ELSE Inc32(SetMax({MetadataOf(fs, id).display_number : id \in ReadableIssues(ds, fs)}))

-----------------------------------------------------------------------------
(* Display-number reconciliation (src/src/issue/reconcile.rs) *)

Reverse(s) == [i \in 1..Len(s) |-> s[Len(s) + 1 - i]]

Rotate(s) == IF s = << >> THEN s ELSE Tail(s) \o <<Head(s)>>

\* read_dir and HashMap iteration return their entries in an unspecified
\* order: the k-th order explored, given the entries in ascending order
OrderK(asc, k) ==
    CASE k = 1 -> Reverse(asc)
      [] k = 2 -> asc
      [] k = 3 -> Rotate(asc)
      [] OTHER -> Rotate(Reverse(asc))

OrderChoices == 1..(IF MaxDirOrders < 4 THEN MaxDirOrders ELSE 4)

AscIds(S) == SelectSeq(IssueIdSeq, LAMBDA x : x \in S)

RECURSIVE AscNats(_)
AscNats(S) ==
    IF S = {} THEN << >>
    ELSE LET m == CHOOSE x \in S : \A y \in S : ~Less32(y, x)
         IN  <<m>> \o AscNats(S \ {m})

\* struct IssueInfo
IssueInfo(fs, id) ==
    [ folder_name |-> id,
      display_number |-> MetadataOf(fs, id).display_number,
      created_at |-> MetadataOf(fs, id).created_at ]

\* Step 1: the issues vector, in read_dir order
ReadIssues(ds, fs, k) ==
    LET order == OrderK(AscIds(ReadableIssues(ds, fs)), k)
    IN  [i \in 1..Len(order) |-> IssueInfo(fs, order[i])]

\* x inserted into the sequence rest (sorted by created_at), before the first
\* element that is not older than x
InsertByCreated(x, rest) ==
    LET NotOlder == {i \in 1..Len(rest) : ~(rest[i].created_at < x.created_at)}
        j == IF NotOlder = {} THEN Len(rest) + 1
             ELSE CHOOSE i \in NotOlder : \A k \in NotOlder : i <= k
    IN  SubSeq(rest, 1, j - 1) \o <<x>> \o SubSeq(rest, j, Len(rest))

\* group.sort_by(|a, b| a.created_at.cmp(&b.created_at)), a stable sort
RECURSIVE SortByCreated(_)
SortByCreated(group) ==
    IF Len(group) <= 1 THEN group
    ELSE Eval({InsertByCreated(Head(group), rest) : rest \in {SortByCreated(Tail(group))}})

\* reassignments.push((folder_name, next_available)); next_available += 1,
\* for each issue of the sequence
RECURSIVE AssignAll(_, _)
AssignAll(acc, infos) ==
    IF infos = << >> THEN acc
    ELSE LET sum == Inc32(acc.next_available)
         IN  AssignAll([ reassignments |->
                            Append(acc.reassignments,
                                   <<Head(infos).folder_name, acc.next_available>>),
                         next_available |-> sum.value,
                         overflow |-> acc.overflow \/ sum.overflow ],
                       Tail(infos))

\* a loop body that leaves every group as it is
ProcessGroup_KeepsAll(acc, display_number, group) == acc

\* Step 4, one iteration of the loop over by_display_number
ProcessGroup(acc, display_number, group) ==
    IF Len(group) <= 1 THEN acc
    ELSE IF display_number = 0 THEN AssignAll(acc, group)
    ELSE AssignAll(acc, Tail(SortByCreated(group)))

RECURSIVE ProcessGroups(_, _, _)
ProcessGroups(acc, keys, issues) ==
    IF keys = << >> THEN acc
    ELSE LET Same(i) == i.display_number = Head(keys)
         IN  ProcessGroups(ProcessGroup(acc, Head(keys), SelectSeq(issues, Same)),
                           Tail(keys), issues)

\* Steps 2 to 4: the reassignments, given the read_dir order k1 and the
\* HashMap iteration order k2
Reassignments(ds, fs, k1, k2) ==
    LET issues == ReadIssues(ds, fs, k1)
        numbers == {issues[i].display_number : i \in 1..Len(issues)}
        first == Inc32(SetMax(numbers))
    IN  ProcessGroups([ reassignments |-> << >>,
                        next_available |-> first.value,
                        overflow |-> first.overflow ],
                      OrderK(AscNats(numbers), k2), issues)

\* Step 5: metadata.display_number and metadata.updated_at rewritten
WriteReassignments(fs, reassignments, now) ==
    LET New(id) == CHOOSE i \in 1..Len(reassignments) : reassignments[i][1] = id
        Moved == {reassignments[i][1] : i \in 1..Len(reassignments)}
    IN  [p \in DOMAIN fs |->
            IF p[1] = "issues/" /\ p[3] = "metadata.json" /\ p[2] \in Moved
            THEN MetadataJson([ParseMetadata(fs[p]) EXCEPT
                                   !.display_number = reassignments[New(p[2])][2],
                                   !.updated_at = now])
            ELSE fs[p]]

\* reconcile_display_numbers: [ok, fs, count].  It fails when a metadata.json
\* cannot be read as text, and panics on an overflow in a build with
\* overflow checks; both happen before anything is written.
reconcile_display_numbers(ds, fs, k1, k2, now, overflow_checks) ==
    IF IssuesDir \notin ds THEN [ok |-> TRUE, fs |-> fs, count |-> 0]
    ELSE IF \E id \in IssueFolders(ds, fs) : fs[MetadataPath(id)][1] = "bytes"
    THEN [ok |-> FALSE, fs |-> fs, count |-> 0]
    ELSE LET Outcome(acc) ==
                 IF acc.overflow /\ overflow_checks
                 THEN [ok |-> FALSE, fs |-> fs, count |-> 0]
                 ELSE [ ok |-> TRUE,
                        fs |-> WriteReassignments(fs, acc.reassignments, now),
                        count |-> Len(acc.reassignments) ]
         IN  Eval({Outcome(acc) : acc \in {Reassignments(ds, fs, k1, k2)}})

\* the ReconcileDisplayNumbers operation
ReconcileDisplayNumbers(k1, k2, now, overflow_checks) ==
    \E out \in {reconcile_display_numbers(dirs, files, k1, k2, now, overflow_checks)} :
        /\ files' = out.fs
        /\ last' = Done("ReconcileDisplayNumbers", out.ok)
        /\ UNCHANGED <<dirs, manifestFile, migVars, regVars, reqVars>>
-----------------------------------------------------------------------------
(* Project configuration (src/src/config/mod.rs) *)

ConfigPath == <<"config.json", "", "">>

\* Option::None for the version field
NoVersion == << >>

\* default_priority_levels()
DefaultPriorityLevels == 3

\* CentyConfig::default(); defaults is the map of that name (its key
\* "priority" holds the default priority as a string), custom_defaults the
\* default values of the custom field definitions
DefaultConfig ==
    [ version |-> NoVersion, priority_levels |-> DefaultPriorityLevels,
      defaults |-> NoFields, default_state |-> "open", custom_defaults |-> NoFields ]

\* serde_json::to_string_pretty(config)
ConfigJson(cfg) == <<"config", cfg>>

\* read_config: Ok(None) when config.json does not exist, Err when it is
\* not a serialized CentyConfig
read_config(fs) ==
    IF ConfigPath \notin DOMAIN fs THEN [err |-> FALSE, some |-> FALSE, value |-> DefaultConfig]
    ELSE IF fs[ConfigPath][1] # "config"
    THEN [err |-> TRUE, some |-> FALSE, value |-> DefaultConfig]
    ELSE [err |-> FALSE, some |-> TRUE, value |-> fs[ConfigPath][2]]

-----------------------------------------------------------------------------
(* Issue operations (src/src/issue/create.rs, src/src/issue/crud.rs) *)

\* Option::None for a string option of a request
Keep == "<none>"

\* s.trim().is_empty()
IsBlank(s) == s \in {"", " "}

\* validate_priority(priority, max_levels) is Ok
validate_priority(priority, max_levels) == priority >= 1 /\ priority <= max_levels

\* a default priority that is the lower half of the range
default_priority_Floor(priority_levels) ==
    IF priority_levels = 0 THEN 1 ELSE priority_levels \div 2

\* the strings a config holds under defaults["priority"] here, with the
\* value parse::<u32>() gives; any other string does not parse
U32Pairs == << <<"0", 0>>, <<"2", 2>>, <<"9", 9>> >>

\* p.parse::<u32>().ok()
parse_u32(s) ==
    IF \E i \in 1..Len(U32Pairs) : U32Pairs[i][1] = s
    THEN [ok |-> TRUE,
          value |-> U32Pairs[CHOOSE i \in 1..Len(U32Pairs) : U32Pairs[i][1] = s][2]]
    ELSE [ok |-> FALSE, value |-> 0]

\* config.defaults.get("priority").and_then(|p| p.parse::<u32>().ok())
config_default_priority(config) ==
    IF config.some /\ "priority" \in DOMAIN config.value.defaults
    THEN parse_u32(config.value.defaults["priority"])
    ELSE [ok |-> FALSE, value |-> 0]

\* default_priority(priority_levels)
default_priority(priority_levels) ==
    IF priority_levels = 0 THEN 1 ELSE (priority_levels + 1) \div 2

\* a failure that leaves no manifest behind
Failed_DropsManifest(ds, fs, mf) == [ok |-> FALSE, ds |-> ds, fs |-> fs, mf |-> NoManifest]

\* the result of an operation that failed after leaving directories ds
Failed(ds, fs, mf) == [ok |-> FALSE, ds |-> ds, fs |-> fs, mf |-> mf]

\* the four manifest entries create_issue upserts
IssueEntries(m, id, issue_md, metadata_json) ==
    add_file_to_manifest(
      add_file_to_manifest(
        add_file_to_manifest(
          add_file_to_manifest(m, create_managed_file(IssueDir(id), EmptyHash, "directory")),
          create_managed_file(IssueMdPath(id), compute_hash(issue_md), "file")),
        create_managed_file(MetadataPath(id), compute_hash(metadata_json), "file")),
      create_managed_file(IssueAssetsDir(id), EmptyHash, "directory"))

\* .centy/templates/issues/<name>.md; name is written with its extension
IssueTemplatePath(name) == <<"templates/", "issues/", name>>

\* TemplateEngine::render_issue: Err when the template file does not exist
\* or is not text, else the template filled in with the context
render_issue(fs, template, title, description) ==
    IF IssueTemplatePath(template) \notin DOMAIN fs
       \/ fs[IssueTemplatePath(template)][1] = "bytes"
    THEN [err |-> TRUE, value |-> Text("")]
    ELSE [err |-> FALSE,
          value |-> <<"rendered", fs[IssueTemplatePath(template)], title, description>>]

\* the custom field values of a new issue: the defaults of the config,
\* overridden by the fields of the request
NewCustomFields(config, options) ==
    IF config.some THEN options.custom_fields @@ config.value.custom_defaults
    ELSE options.custom_fields

\* create_issue between the display number and the writes: the priority is
\* validated and the metadata and the text of issue.md are built.  options
\* is [title, description, priority, status, custom_fields, template] with
\* priority 0 and status and template Keep for None.
IssueContent(fs, options, display_number, now) ==
    LET config == read_config(fs)
        priority_levels == IF config.some THEN config.value.priority_levels
                           ELSE DefaultPriorityLevels
        priority ==
            IF options.priority # 0 THEN options.priority
            ELSE IF config_default_priority(config).ok
                 THEN config_default_priority(config).value
                 ELSE default_priority(priority_levels)
        status ==
            IF options.status # Keep THEN options.status
            ELSE IF config.some THEN config.value.default_state ELSE "open"
        rendered == render_issue(fs, options.template, options.title, options.description)
    IN  [ err |-> \/ options.priority # 0
                     /\ ~validate_priority(options.priority, priority_levels)
                  \/ options.template # Keep /\ rendered.err,
          metadata |-> NewIssueMetadata(display_number, status, priority,
                                        NewCustomFields(config, options), now),
          issue_md |-> IF options.template # Keep THEN rendered.value
                       ELSE generate_issue_md(options.title, options.description) ]

\* create_issue; id is the generated UUID
create_issue(ds, fs, mf, options, id, now, overflow_checks) ==
    LET ds1 == ds \cup Ancestors(IssuesDir)
        next == get_next_display_number(ds1, fs)
        issue == IssueContent(fs, options, next.value, now)
    IN  IF IsBlank(options.title) THEN Failed(ds, fs, mf)
        ELSE IF ~read_manifest(mf).some THEN Failed(ds, fs, mf)
        ELSE IF AsFile(IssuesDir) \in DOMAIN fs THEN Failed(ds, fs, mf)
        ELSE IF next.overflow /\ overflow_checks THEN Failed(ds1, fs, mf)
        ELSE IF issue.err THEN Failed(ds1, fs, mf)
        ELSE [ ok |-> TRUE,
               ds |-> ds1 \cup Ancestors(IssueAssetsDir(id)),
               fs |-> (IssueMdPath(id) :> issue.issue_md) @@
                      (MetadataPath(id) :> MetadataJson(issue.metadata)) @@ fs,
               mf |-> write_manifest(IssueEntries(mf.managedFiles, id, issue.issue_md,
                                                  MetadataJson(issue.metadata))) ]

\* str::trim and str::trim_end on the strings that have something to trim
\* an issue template that consists of the title alone
TitleOnly == Text("{{title}}")

TrimPairs == << <<" Login bug ", "Login bug">>, <<" ", "">> >>
TrimEndPairs == << <<"Steps ", "Steps">>, <<" ", "">> >>

Lookup(pairs, s) ==
    IF \E i \in 1..Len(pairs) : pairs[i][1] = s
    THEN pairs[CHOOSE i \in 1..Len(pairs) : pairs[i][1] = s][2]
    ELSE s

Trim(s) == Lookup(TrimPairs, s)
TrimEnd(s) == Lookup(TrimEndPairs, s)

\* parse_issue_md(content): (title, description); the title is the first
\* line without its '#' and trimmed, the description the rest without its
\* trailing whitespace.  A first line that does not start with '#' is
\* returned as it is (unwrap_or(lines[0])): that is the case of a file
\* rendered from the template TitleOnly, whose first line is the title
\* of the request.
parse_issue_md(content) ==
    [ title |-> IF content[1] = "md" THEN Trim(content[2])
                ELSE IF content[1] = "rendered"
                THEN IF content[2] = TitleOnly THEN content[3] ELSE "rendered"
                ELSE content[2],
      description |-> IF content[1] = "md" /\ Len(content) = 3 THEN TrimEnd(content[3])
                      ELSE "" ]

\* an update that writes the serde default of display_number
KeptDisplayNumber_Default(current) == 0

\* the display number update_issue writes: the one it read
KeptDisplayNumber(current) == current.display_number

\* new_custom_fields: the stored fields, with the fields of the request
\* inserted over them
merge_custom_fields(current, given) == given @@ current

\* read_issue_from_disk: Err when issue.md or metadata.json is missing, is
\* not text or does not deserialize
read_issue_from_disk(fs, id) ==
    IF /\ IssueMdPath(id) \in DOMAIN fs
       /\ MetadataPath(id) \in DOMAIN fs
       /\ fs[IssueMdPath(id)][1] # "bytes"
       /\ IsMetadataJson(fs[MetadataPath(id)])
    THEN [ err |-> FALSE,
           issue_number |-> id,
           title |-> parse_issue_md(fs[IssueMdPath(id)]).title,
           description |-> parse_issue_md(fs[IssueMdPath(id)]).description,
           metadata |-> MetadataOf(fs, id) ]
    ELSE [ err |-> TRUE, issue_number |-> id, title |-> "", description |-> "",
           metadata |-> << >> ]

\* get_issue: NotInitialized without a manifest, IssueNotFound without the
\* folder, else the issue as read_issue_from_disk returns it
get_issue(ds, fs, mf, id) ==
    IF ~read_manifest(mf).some \/ IssueDir(id) \notin ds
    THEN [ err |-> TRUE, issue_number |-> id, title |-> "", description |-> "",
           metadata |-> << >> ]
    ELSE read_issue_from_disk(fs, id)

\* issues.sort_by(|a, b| a.issue_number.cmp(&b.issue_number))
RECURSIVE SortNames(_)
SortNames(S) ==
    IF S = {} THEN << >>
    ELSE LET m == CHOOSE x \in S : \A y \in S : CompRank(x) <= CompRank(y)
         IN  <<m>> \o SortNames(S \ {m})

\* folder names that are the digits of a u32: issue_number.parse::<u32>()
\* is Ok.  No UUID is one.
NumericNames == {"0001/"}

\* list_issues with no filters: the folder names of the issues returned, in
\* the order returned (sorted by issue_number)
list_issues(ds, fs, mf) ==
    IF ~read_manifest(mf).some THEN [ok |-> FALSE, issues |-> << >>]
    ELSE IF IssuesDir \notin ds THEN [ok |-> TRUE, issues |-> << >>]
    ELSE LET entries == {d[2] : d \in {e \in ds : e[1] = "issues/" /\ e[2] # "" /\ e[3] = ""}}
             listed == {name \in entries : /\ name \in NumericNames
                                           /\ ~read_issue_from_disk(fs, name).err}
         IN  [ok |-> TRUE, issues |-> SortNames(listed)]

\* update_issue; options is [title, description, status, priority,
\* custom_fields] with Keep and 0 for None
update_issue(ds, fs, mf, id, options, now) ==
    LET config == read_config(fs)
        priority_levels == IF config.some THEN config.value.priority_levels
                           ELSE DefaultPriorityLevels
        readable == ~read_issue_from_disk(fs, id).err
        Updated(current, meta) ==
            LET issue_md ==
                    generate_issue_md(
                        IF options.title # Keep THEN options.title ELSE current.title,
                        IF options.description # Keep THEN options.description
                        ELSE current.description)
                updated_metadata ==
                    IssueMetadata(KeptDisplayNumber(meta),
                                  IF options.status # Keep THEN options.status ELSE meta.status,
                                  IF options.priority # 0 THEN options.priority
                                  ELSE meta.priority,
                                  meta.created_at, now,
                                  merge_custom_fields(meta.custom_fields,
                                                      options.custom_fields))
            IN  [ ok |-> TRUE,
                  ds |-> ds,
                  fs |-> (IssueMdPath(id) :> issue_md) @@
                         (MetadataPath(id) :> MetadataJson(updated_metadata)) @@ fs,
                  mf |-> write_manifest(
                           add_file_to_manifest(
                             add_file_to_manifest(mf.managedFiles,
                               create_managed_file(IssueMdPath(id), compute_hash(issue_md),
                                                   "file")),
                             create_managed_file(MetadataPath(id),
                                                 compute_hash(MetadataJson(updated_metadata)),
                                                 "file"))) ]
    IN  IF ~read_manifest(mf).some THEN Failed(ds, fs, mf)
        ELSE IF IssueDir(id) \notin ds THEN Failed(ds, fs, mf)
        ELSE IF ~readable THEN Failed(ds, fs, mf)
        ELSE IF options.priority # 0 /\ ~validate_priority(options.priority, priority_levels)
        THEN Failed(ds, fs, mf)
        ELSE Updated(parse_issue_md(fs[IssueMdPath(id)]), MetadataOf(fs, id))

\* a prefix test that matches the entries of every issue
InIssueFolder_AnyIssue(p, id) == p[1] = "issues/"

\* f.path.starts_with("issues/<id>/")
InIssueFolder(p, id) == p[1] = "issues/" /\ p[2] = id

\* delete_issue
delete_issue(ds, fs, mf, id) ==
    LET Kept(f) == ~InIssueFolder(f.path, id)
    IN  IF ~read_manifest(mf).some THEN Failed(ds, fs, mf)
        ELSE IF IssueDir(id) \notin ds THEN Failed(ds, fs, mf)
        ELSE [ ok |-> TRUE,
               ds |-> {d \in ds : ~InIssueFolder(d, id)},
               fs |-> [p \in {q \in DOMAIN fs : ~InIssueFolder(q, id)} |-> fs[p]],
               mf |-> write_manifest(SelectSeq(mf.managedFiles, Kept)) ]

\* an operation's outcome becomes the next disk state
Apply(op, out, id, id2) ==
    /\ dirs' = out.ds
    /\ files' = out.fs
    /\ manifestFile' = out.mf
    /\ last' = [Done(op, out.ok) EXCEPT !.id = id, !.id2 = id2]
    /\ UNCHANGED <<migVars, regVars, reqVars>>

\* the outcome of a request with options becomes the next disk state
ApplyWith(op, out, id, options) ==
    /\ dirs' = out.ds
    /\ files' = out.fs
    /\ manifestFile' = out.mf
    /\ last' = [Done(op, out.ok) EXCEPT !.id = id, !.options = options]
    /\ UNCHANGED <<migVars, regVars, reqVars>>

CreateIssue(options, id, now, overflow_checks) ==
    /\ IssueDir(id) \notin dirs
    /\ \E out \in {create_issue(dirs, files, manifestFile, options, id, now, overflow_checks)} :
           ApplyWith("CreateIssue", out, id, options)

\* the request log keeps the issue as it read before the update
UpdateIssue(id, options, now) ==
    \E out \in {update_issue(dirs, files, manifestFile, id, options, now)} :
        /\ dirs' = out.ds
        /\ files' = out.fs
        /\ manifestFile' = out.mf
        /\ last' = [Done("UpdateIssue", out.ok) EXCEPT
                      !.id = id, !.options = options,
                      !.before = read_issue_from_disk(files, id)]
        /\ UNCHANGED <<migVars, regVars, reqVars>>

DeleteIssue(id) ==
    \E out \in {delete_issue(dirs, files, manifestFile, id)} :
        Apply("DeleteIssue", out, id, "")
-----------------------------------------------------------------------------
(* Issue requests served concurrently.  The server runs every request as a  *)
(* task of its own and takes no lock per project, so the filesystem calls   *)
(* of two requests interleave.  reqs[r] is the request in slot r: its       *)
(* position pc and its locals.                                              *)

\* concurrent issue requests
MaxRequests == 2

RequestIds == 1..MaxRequests

IdleRequest ==
    [ pc |-> "idle", op |-> "", id |-> "", options |-> << >>, m |-> << >>,
      number |-> 0, metadata |-> << >>, issue_md |-> << >> ]

\* one step of request r: its record and the entry of the request log
Step(r, name, ok, next) ==
    /\ reqs' = [reqs EXCEPT ![r] = next]
    /\ last' = [Done(name, ok) EXCEPT !.id = next.id]
    /\ UNCHANGED <<migVars, regVars, daemon>>

\* the handler is entered; a CreateIssue generates a UUID no folder and no
\* other request has
Receive(r, op, id, options) ==
    /\ reqs[r].pc = "idle"
    /\ op = "CreateIssue" =>
           /\ IssueDir(id) \notin dirs
           /\ \A q \in RequestIds : reqs[q].id # id
    /\ Step(r, "Receive", TRUE,
            [IdleRequest EXCEPT !.pc = "received", !.op = op, !.id = id,
                                !.options = options])
    /\ UNCHANGED <<dirs, files, manifestFile>>

\* create_issue, update_issue and delete_issue start by reading the manifest
LoadManifest(r) ==
    /\ reqs[r].pc = "received"
    /\ LET blank == reqs[r].op = "CreateIssue" /\ IsBlank(reqs[r].options.title)
           read == read_manifest(manifestFile)
       IN  IF blank \/ ~read.some
           THEN Step(r, "LoadManifest", FALSE, [reqs[r] EXCEPT !.pc = "failed"])
           ELSE Step(r, "LoadManifest", TRUE,
                     [reqs[r] EXCEPT !.pc = "loaded", !.m = read.value])
    /\ UNCHANGED <<dirs, files, manifestFile>>

\* create_issue: issues/ is made, the display number computed, the priority
\* validated, the metadata and the text built
NextNumber(r, now, overflow_checks) ==
    /\ reqs[r].pc = "loaded"
    /\ reqs[r].op = "CreateIssue"
    /\ LET ds1 == dirs \cup Ancestors(IssuesDir)
           next == get_next_display_number(ds1, files)
           issue == IssueContent(files, reqs[r].options, next.value, now)
       IN  IF AsFile(IssuesDir) \in DOMAIN files
           THEN /\ Step(r, "NextNumber", FALSE, [reqs[r] EXCEPT !.pc = "failed"])
                /\ UNCHANGED dirs
           ELSE /\ dirs' = ds1
                /\ IF (next.overflow /\ overflow_checks) \/ issue.err
                   THEN Step(r, "NextNumber", FALSE, [reqs[r] EXCEPT !.pc = "failed"])
                   ELSE Step(r, "NextNumber", TRUE,
                             [reqs[r] EXCEPT !.pc = "numbered", !.number = next.value,
                                             !.metadata = issue.metadata,
                                             !.issue_md = issue.issue_md])
    /\ UNCHANGED <<files, manifestFile>>

\* create_issue: the issue folder is made and issue.md written
WriteIssueMd(r) ==
    /\ reqs[r].pc = "numbered"
    /\ dirs' = dirs \cup Ancestors(IssueDir(reqs[r].id))
    /\ files' = (IssueMdPath(reqs[r].id) :> reqs[r].issue_md) @@ files
    /\ Step(r, "WriteIssueMd", TRUE, [reqs[r] EXCEPT !.pc = "folder"])
    /\ UNCHANGED manifestFile

\* create_issue: metadata.json is written, assets/ made and the four entries
\* put into the manifest in memory
WriteMetadata(r) ==
    /\ reqs[r].pc = "folder"
    /\ dirs' = dirs \cup Ancestors(IssueAssetsDir(reqs[r].id))
    /\ files' = (MetadataPath(reqs[r].id) :> MetadataJson(reqs[r].metadata)) @@ files
    /\ Step(r, "WriteMetadata", TRUE,
            [reqs[r] EXCEPT !.pc = "saving",
                            !.m = IssueEntries(@, reqs[r].id, reqs[r].issue_md,
                                               MetadataJson(reqs[r].metadata))])
    /\ UNCHANGED manifestFile

\* delete_issue: the folder is removed and its entries taken out of the
\* manifest in memory
RemoveFolder(r) ==
    /\ reqs[r].pc = "loaded"
    /\ reqs[r].op = "DeleteIssue"
    /\ LET id == reqs[r].id
           Kept(f) == ~(f.path[1] = "issues/" /\ f.path[2] = id)
       IN  IF IssueDir(id) \notin dirs
           THEN /\ Step(r, "RemoveFolder", FALSE, [reqs[r] EXCEPT !.pc = "failed"])
                /\ UNCHANGED <<dirs, files>>
           ELSE /\ dirs' = {d \in dirs : ~(d[1] = "issues/" /\ d[2] = id)}
                /\ files' = [p \in {q \in DOMAIN files : ~(q[1] = "issues/" /\ q[2] = id)}
                                |-> files[p]]
                /\ Step(r, "RemoveFolder", TRUE,
                        [reqs[r] EXCEPT !.pc = "saving", !.m = SelectSeq(@, Kept)])
    /\ UNCHANGED manifestFile

\* a manifest file that has been opened for writing and not written yet
EmptyFile == [exists |-> TRUE, managedFiles |-> << >>, rest |-> << >>]

\* The bytes of the file after document doc is written at offset 0 of a file
\* holding cur: the document, then the bytes of cur beyond its length.  Every
\* entry, and the closing, counts as one block of bytes.
Overwrite(cur, doc) ==
    LET mine == doc.managedFiles \o doc.rest
        old == cur.managedFiles \o cur.rest
    IN  [ exists |-> TRUE, managedFiles |-> doc.managedFiles,
          rest |-> doc.rest \o SubSeq(old, Len(mine) + 1, Len(old)) ]

\* write_manifest, first half: fs::write opens the file, which truncates it
OpenManifest(r) ==
    /\ reqs[r].pc = "saving"
    /\ manifestFile' = EmptyFile
    /\ Step(r, "OpenManifest", TRUE, [reqs[r] EXCEPT !.pc = "opened"])
    /\ UNCHANGED <<dirs, files>>

\* write_manifest, second half: the sorted document is written at the
\* start of the file through the handle opened before
WriteManifest(r) ==
    /\ reqs[r].pc = "opened"
    /\ manifestFile' = Overwrite(manifestFile, write_manifest(reqs[r].m))
    /\ Step(r, "WriteManifest", TRUE, [reqs[r] EXCEPT !.pc = "done"])
    /\ UNCHANGED <<dirs, files>>

-----------------------------------------------------------------------------
(* Doc operations (src/src/docs/crud.rs) *)

DocsDir == <<"docs/", "", "">>

\* docs/<slug>.md
DocPath(slug) == <<"docs/", slug \o ".md", "">>

\* slugify(s), on the strings requests carry in this model
slugify(s) ==
    CASE s \in {"Guide", "guide", "Guide!"} -> "guide"
      [] s \in {"Intro", "intro", "_Intro_"} -> "intro"
      [] s \in {"Notes", "notes"} -> "notes"
      [] OTHER -> ""

\* validate_slug(slug) is Ok (slugify never yields a leading or trailing hyphen)
validate_slug(slug) == slug # ""

\* generate_doc_content(title, content, metadata)
generate_doc_content(title, content, created_at, updated_at) ==
    <<"doc", title, created_at, updated_at, content>>

\* parse_doc_content(content): a file with frontmatter, as
\* generate_doc_content writes it, or plain text (DocMetadata::new())
parse_doc_content(content, now) ==
    IF content[1] = "doc"
    THEN [ title |-> content[2], created_at |-> content[3], updated_at |-> content[4],
           content |-> content[5] ]
    ELSE [ title |-> "", created_at |-> now, updated_at |-> now, content |-> content[2] ]

\* create_doc; options is [title, content, slug] with slug "" for None
create_doc(ds, fs, mf, options, now) ==
    LET ds1 == ds \cup Ancestors(DocsDir)
        given == ~IsBlank(options.slug)
        slug == IF given THEN slugify(options.slug) ELSE slugify(options.title)
        doc_content == generate_doc_content(options.title, options.content, now, now)
    IN  IF IsBlank(options.title) THEN Failed(ds, fs, mf)
        ELSE IF ~mf.exists THEN Failed(ds, fs, mf)
        ELSE IF given /\ ~validate_slug(slug) THEN Failed(ds1, fs, mf)
        ELSE IF DocPath(slug) \in DOMAIN fs THEN Failed(ds1, fs, mf)
        ELSE [ ok |-> TRUE,
               ds |-> ds1,
               fs |-> (DocPath(slug) :> doc_content) @@ fs,
               mf |-> write_manifest(
                        add_file_to_manifest(mf.managedFiles,
                          create_managed_file(DocPath(slug), compute_hash(doc_content),
                                              "file"))) ]

\* the slug create_doc stores the doc under
CreatedSlug(options) ==
    IF ~IsBlank(options.slug) THEN slugify(options.slug) ELSE slugify(options.title)

\* update_doc; options is [title, content, new_slug] with Keep, Keep and ""
\* for None
update_doc(ds, fs, mf, slug, options, now) ==
    LET renaming == ~IsBlank(options.new_slug) /\ options.new_slug # slug
        new_slug == slugify(options.new_slug)
        NotOld(f) == f.path # DocPath(slug)
        Updated(current) ==
            LET doc_content ==
                    generate_doc_content(
                        IF options.title # Keep THEN options.title ELSE current.title,
                        IF options.content # Keep THEN options.content ELSE current.content,
                        current.created_at, now)
            IN  IF renaming
                THEN [ ok |-> TRUE,
                       ds |-> ds,
                       fs |-> (DocPath(new_slug) :> doc_content) @@
                              [p \in (DOMAIN fs) \ {DocPath(slug)} |-> fs[p]],
                       mf |-> write_manifest(
                                add_file_to_manifest(SelectSeq(mf.managedFiles, NotOld),
                                  create_managed_file(DocPath(new_slug),
                                                      compute_hash(doc_content), "file"))) ]
                ELSE [ ok |-> TRUE,
                       ds |-> ds,
                       fs |-> (DocPath(slug) :> doc_content) @@ fs,
                       mf |-> write_manifest(
                                add_file_to_manifest(mf.managedFiles,
                                  create_managed_file(DocPath(slug),
                                                      compute_hash(doc_content), "file"))) ]
    IN  IF ~mf.exists THEN Failed(ds, fs, mf)
        ELSE IF DocPath(slug) \notin DOMAIN fs THEN Failed(ds, fs, mf)
        ELSE IF fs[DocPath(slug)][1] = "bytes" THEN Failed(ds, fs, mf)
        ELSE IF renaming /\ ~validate_slug(new_slug) THEN Failed(ds, fs, mf)
        ELSE IF renaming /\ DocPath(new_slug) \in DOMAIN fs THEN Failed(ds, fs, mf)
        ELSE Updated(parse_doc_content(fs[DocPath(slug)], now))

\* the slug the doc has after update_doc
UpdatedSlug(slug, options) ==
    IF ~IsBlank(options.new_slug) /\ options.new_slug # slug
    THEN slugify(options.new_slug) ELSE slug

\* delete_doc
delete_doc(ds, fs, mf, slug) ==
    LET NotOld(f) == f.path # DocPath(slug)
    IN  IF ~mf.exists THEN Failed(ds, fs, mf)
        ELSE IF DocPath(slug) \notin DOMAIN fs THEN Failed(ds, fs, mf)
        ELSE [ ok |-> TRUE,
               ds |-> ds,
               fs |-> [p \in (DOMAIN fs) \ {DocPath(slug)} |-> fs[p]],
               mf |-> write_manifest(SelectSeq(mf.managedFiles, NotOld)) ]

CreateDoc(options, now) ==
    \E out \in {create_doc(dirs, files, manifestFile, options, now)} :
        Apply("CreateDoc", out, CreatedSlug(options), "")

UpdateDoc(slug, options, now) ==
    \E out \in {update_doc(dirs, files, manifestFile, slug, options, now)} :
        Apply("UpdateDoc", out, slug, UpdatedSlug(slug, options))

DeleteDoc(slug) ==
    \E out \in {delete_doc(dirs, files, manifestFile, slug)} :
        Apply("DeleteDoc", out, slug, "")
-----------------------------------------------------------------------------
(* The environment of a project: its user, and clones that sync with it *)

UserContents == {Text("user edit")}

\* the catalog file the user may also overwrite with bytes that are not UTF-8
BinaryFiles == {<<"README.md", "", "">>}

EmptyFiles == [p \in {} |-> Text("")]

Restrict(f, S) == [x \in S |-> f[x]]

\* rm -r of a catalog path (or of .centy/ itself, manifest included)
UserDelete(p) ==
    /\ p \in dirs \cup DOMAIN files
    /\ dirs' = {d \in dirs : ~Under(d, p)}
    /\ files' = Restrict(files, {f \in DOMAIN files : ~Under(f, p)})
    /\ manifestFile' = IF p = RootDir THEN NoManifest ELSE manifestFile
    /\ last' = Done("User", TRUE)
    /\ UNCHANGED <<migVars, regVars, reqVars>>

\* the user edits (or creates) a file
UserWrite(p, content) ==
    /\ Parent(p) \in dirs
    /\ AsDir(p) \notin dirs
    /\ ~(p \in DOMAIN files /\ files[p] = content)
    /\ files' = (p :> content) @@ files
    /\ last' = Done("User", TRUE)
    /\ UNCHANGED <<dirs, manifestFile, migVars, regVars, reqVars>>

\* the user makes a directory
UserMkdir(p) ==
    /\ Parent(p) \in dirs
    /\ p \notin dirs
    /\ AsFile(p) \notin DOMAIN files
    /\ dirs' = dirs \cup {p}
    /\ last' = Done("User", TRUE)
    /\ UNCHANGED <<files, manifestFile, migVars, regVars, reqVars>>

UserDeleteManifest ==
    /\ manifestFile.exists
    /\ manifestFile' = NoManifest
    /\ last' = Done("User", TRUE)
    /\ UNCHANGED <<dirs, files, migVars, regVars, reqVars>>

\* the issue.md and metadata.json of an issue that another clone created
SyncedIssueMd == generate_issue_md("Synced", "")

SyncedMetadata(display_number, created_at) ==
    MetadataJson(IssueMetadata(display_number, "open", default_priority(DefaultPriorityLevels),
                               created_at, created_at, NoFields))

\* the files of issue folder id as a clone's create_issue left them
SyncedFiles(id, display_number, created_at) ==
    (IssueMdPath(id) :> SyncedIssueMd) @@
    (MetadataPath(id) :> SyncedMetadata(display_number, created_at))

\* A pull brings in an issue folder that another clone created, with the
\* manifest entries that clone's create_issue wrote for it.
PeerSync(id, display_number, created_at) ==
    /\ manifestFile.exists
    /\ IssueDir(id) \notin dirs
    /\ dirs' = dirs \cup Ancestors(IssueAssetsDir(id))
    /\ files' = SyncedFiles(id, display_number, created_at) @@ files
    /\ manifestFile' =
           write_manifest(IssueEntries(manifestFile.managedFiles, id, SyncedIssueMd,
                                       SyncedMetadata(display_number, created_at)))
    /\ last' = [Done("PeerSync", TRUE) EXCEPT !.id = id]
    /\ UNCHANGED <<migVars, regVars, reqVars>>
-----------------------------------------------------------------------------
(* Versions (src/src/version/types.rs) *)

\* SemVer values <<major, minor, patch>>, in ascending order
VersionSeq == << <<0, 0, 0>>, <<0, 1, 0>>, <<0, 2, 0>>, <<1, 0, 0>>, <<1, 0, 1>>, <<1, 1, 0>> >>

Versions == {VersionSeq[i] : i \in 1..(IF MaxVersions < 6 THEN MaxVersions ELSE 6)}

\* Ord for SemVer: a < b
SemVerLess(a, b) ==
    \/ a[1] < b[1]
    \/ a[1] = b[1] /\ a[2] < b[2]
    \/ a[1] = b[1] /\ a[2] = b[2] /\ a[3] < b[3]

\* str::parse::<u32>() on the numerals a stored version is made of: the
\* value, or -1 for Err
ParseU32(s) ==
    CASE s \in {"0", "00"} -> 0
      [] s \in {"1", "01", "+1"} -> 1
      [] s = "2" -> 2
      [] OTHER -> 0 - 1

\* u32 Display
ShowU32(n) == CASE n = 0 -> "0" [] n = 1 -> "1" [] OTHER -> "2"

\* A version string is the tuple of its dot-separated parts: "0.1.0" is
\* <<"0", "1", "0">>.  SemVer::parse(s): [ok, value]
SemVerParse(s) ==
    IF Len(s) # 3 THEN [ok |-> FALSE, value |-> <<0, 0, 0>>]
    ELSE IF \E i \in 1..3 : ParseU32(s[i]) < 0 THEN [ok |-> FALSE, value |-> <<0, 0, 0>>]
    ELSE [ok |-> TRUE, value |-> <<ParseU32(s[1]), ParseU32(s[2]), ParseU32(s[3])>>]

\* Display for SemVer
SemVerShow(v) == <<ShowU32(v[1]), ShowU32(v[2]), ShowU32(v[3])>>

-----------------------------------------------------------------------------
(* Migration registry (src/src/migration/registry.rs) *)

\* a Migration: its from_version and to_version
Migrations == {m \in [from : Versions, to : Versions] : SemVerLess(m.from, m.to)}

\* x inserted into the sequence rest (sorted by from_version), before the
\* first element whose from_version is not smaller
InsertByFrom(x, rest) ==
    LET NotSmaller == {i \in 1..Len(rest) : ~SemVerLess(rest[i].from, x.from)}
        j == IF NotSmaller = {} THEN Len(rest) + 1
             ELSE CHOOSE i \in NotSmaller : \A k \in NotSmaller : i <= k
    IN  SubSeq(rest, 1, j - 1) \o <<x>> \o SubSeq(rest, j, Len(rest))

\* MigrationRegistry::register: push, then sort_by from_version
register(registry, migration) ==
    LET pushed == Append(registry, migration)
        Sorted[i \in 0..Len(pushed)] ==
            IF i = 0 THEN << >> ELSE InsertByFrom(pushed[Len(pushed) + 1 - i], Sorted[i - 1])
    IN  Sorted[Len(pushed)]

\* the registry after registering the migrations of S, one per from_version
RECURSIVE RegistryOf(_)
RegistryOf(S) ==
    IF S = {} THEN << >>
    ELSE LET m == CHOOSE x \in S : TRUE
         IN  register(RegistryOf(S \ {m}), m)

\* the registries explored: at most one migration from each version
Registries ==
    {RegistryOf(S) : S \in {T \in SUBSET Migrations :
                              \A a, b \in T : a.from = b.from => a = b}}

\* create_registry(): InitialVersionMigration alone
create_registry == register(<< >>, [from |-> <<0, 0, 0>>, to |-> <<0, 1, 0>>])

\* self.migrations.iter().find(|m| m.from_version() == &current): the index
\* of the first match, 0 for None
FirstFrom(registry, current) ==
    LET Matches == {i \in 1..Len(registry) : registry[i].from = current}
    IN  IF Matches = {} THEN 0 ELSE CHOOSE i \in Matches : \A j \in Matches : i <= j

\* self.migrations.iter().find(|m| m.to_version() == &current)
FirstTo(registry, current) ==
    LET Matches == {i \in 1..Len(registry) : registry[i].to = current}
    IN  IF Matches = {} THEN 0 ELSE CHOOSE i \in Matches : \A j \in Matches : i <= j

\* the Up loop of get_migration_path
RECURSIVE PathUp(_, _, _, _)
PathUp(registry, current, to, path) ==
    IF ~SemVerLess(current, to) THEN [ok |-> TRUE, path |-> path, direction |-> "Up"]
    ELSE LET i == FirstFrom(registry, current)
         IN  IF i = 0 THEN [ok |-> FALSE, path |-> << >>, direction |-> "Up"]
             ELSE PathUp(registry, registry[i].to, to, Append(path, registry[i]))

\* the Down loop of get_migration_path
RECURSIVE PathDown(_, _, _, _)
PathDown(registry, current, to, path) ==
    IF ~SemVerLess(to, current) THEN [ok |-> TRUE, path |-> path, direction |-> "Down"]
    ELSE LET i == FirstTo(registry, current)
         IN  IF i = 0 THEN [ok |-> FALSE, path |-> << >>, direction |-> "Down"]
             ELSE PathDown(registry, registry[i].from, to, Append(path, registry[i]))

\* MigrationRegistry::get_migration_path(from, to): ok is FALSE for
\* Err(NoMigrationPath)
get_migration_path(registry, from, to) ==
    IF from = to THEN [ok |-> TRUE, path |-> << >>, direction |-> "Up"]
    ELSE IF SemVerLess(from, to) THEN PathUp(registry, from, to, << >>)
    ELSE PathDown(registry, from, to, << >>)

-----------------------------------------------------------------------------
(* Migration executor (src/src/migration/executor.rs) *)

\* config.json as the bytes on disk, <<"absent">> when there is none
ConfigFileOf(fs) == IF ConfigPath \in DOMAIN fs THEN fs[ConfigPath] ELSE <<"absent">>

\* No Migrate call has been made yet.  config is the file migrate read at
\* its start (the local variable config), calls the log of the up and down
\* calls it made.
MigIdle(registry) ==
    [ registry |-> registry, pc |-> "idle", target |-> <<0, 0, 0>>,
      from |-> <<0, 0, 0>>, current |-> <<0, 0, 0>>,
      config |-> <<"absent">>, path |-> << >>, direction |-> "Up", k |-> 0,
      applied |-> << >>, todo |-> << >>, calls |-> << >>, result |-> "none" ]

\* migrate returns: success, failed (success = false), or an Err
Return(m, result) == [m EXCEPT !.pc = "done", !.result = result]

\* migrate, from its start to the first migration step: the config is read,
\* the stored version parsed, the path looked up
MigrateBegin(target) ==
    /\ mig.pc \in {"idle", "done"}
    /\ LET config == read_config(files)
           stored == config.value.version
           versioned == config.some /\ stored # NoVersion
           parsed == IF versioned THEN SemVerParse(stored)
                     ELSE [ok |-> TRUE, value |-> <<0, 0, 0>>]
           found == get_migration_path(mig.registry, parsed.value, target)
           m0 == [MigIdle(mig.registry) EXCEPT
                     !.target = target, !.config = ConfigFileOf(files)]
       IN  mig' = IF config.err THEN Return(m0, "ConfigError")
                  ELSE IF ~parsed.ok THEN Return(m0, "VersionError")
                  ELSE IF ~found.ok THEN Return(m0, "NoMigrationPath")
                  ELSE IF found.path = << >> THEN Return(m0, "success")
                  ELSE [m0 EXCEPT !.pc = "apply", !.path = found.path,
                                  !.direction = found.direction, !.k = 1]
    /\ UNCHANGED <<projVars, regVars, reqVars>>

\* The loops of get_migration_path, one iteration per step.  The elements
\* pushed beyond MaxPathLen, which only a walk that does not end reaches, are
\* not kept.
MaxPathLen == MaxVersions + 1

\* get_migration_path(from, to) up to its loop
PathBegin(from, to) ==
    /\ mig.pc \in {"idle", "done"}
    /\ LET m0 == [MigIdle(mig.registry) EXCEPT !.from = from, !.target = to, !.current = from]
       IN  mig' = IF from = to THEN Return(m0, "success")
                  ELSE [m0 EXCEPT !.pc = "walk",
                                  !.direction = IF SemVerLess(from, to) THEN "Up" ELSE "Down"]
    /\ UNCHANGED <<projVars, regVars, reqVars>>

\* one test of `while &current < to` (Up) or `while &current > to` (Down)
\* and, when it holds, one iteration: find, or Err(NoMigrationPath)
PathStep ==
    /\ mig.pc = "walk"
    /\ LET going == IF mig.direction = "Up" THEN SemVerLess(mig.current, mig.target)
                    ELSE SemVerLess(mig.target, mig.current)
           i == IF mig.direction = "Up" THEN FirstFrom(mig.registry, mig.current)
                ELSE FirstTo(mig.registry, mig.current)
           next == IF mig.direction = "Up" THEN mig.registry[i].to ELSE mig.registry[i].from
       IN  mig' = IF ~going THEN Return(mig, "success")
                  ELSE IF i = 0 THEN Return([mig EXCEPT !.path = << >>], "NoMigrationPath")
                  ELSE [mig EXCEPT !.current = next,
                                   !.path = IF Len(@) < MaxPathLen
                                            THEN Append(@, mig.registry[i]) ELSE @]
    /\ UNCHANGED <<projVars, regVars, reqVars>>

\* write_config(project_path, &config): fs::write fails when .centy/ is missing
write_config(ds, fs, config) ==
    IF RootDir \in ds THEN [ok |-> TRUE, fs |-> (ConfigPath :> ConfigJson(config)) @@ fs]
    ELSE [ok |-> FALSE, fs |-> fs]

\* the config migrate read at its start, unwrap_or_default()
StartConfig(m) == IF m.config[1] = "config" THEN m.config[2] ELSE DefaultConfig

\* a rollback that walks applied in the order of application
rollback_order_forward(applied) == applied

\* applied.iter().rev()
rollback_order(applied) == Reverse(applied)

\* an executor that stores the version reached after each step
ApplyStep_CommitsEachStep(ok) ==
    /\ mig.pc = "apply"
    /\ LET migration == mig.path[mig.k]
           called == [mig EXCEPT !.calls = Append(@, [ op |-> IF mig.direction = "Up"
                                                               THEN "up" ELSE "down",
                                                       migration |-> migration,
                                                       ok |-> ok ])]
           reached == IF mig.direction = "Up" THEN migration.to ELSE migration.from
           written == write_config(dirs, files,
                          [StartConfig(mig) EXCEPT !.version = SemVerShow(reached)])
       IN  /\ mig' = IF ok
                     THEN [called EXCEPT !.applied = Append(@, migration),
                                         !.k = @ + 1,
                                         !.pc = IF mig.k = Len(mig.path) THEN "commit"
                                                ELSE "apply"]
                     ELSE IF mig.applied = << >> THEN Return(called, "failed")
                     ELSE [called EXCEPT !.pc = "rollback",
                                         !.todo = rollback_order(mig.applied)]
          /\ files' = IF ok THEN written.fs ELSE files
    /\ UNCHANGED <<dirs, manifestFile, last, regVars, reqVars>>

\* one iteration of the loop over the path: migration.up or migration.down is
\* awaited and returns Ok (ok) or Err
ApplyStep(ok) ==
    /\ mig.pc = "apply"
    /\ LET migration == mig.path[mig.k]
           called == [mig EXCEPT !.calls = Append(@, [ op |-> IF mig.direction = "Up"
                                                               THEN "up" ELSE "down",
                                                       migration |-> migration,
                                                       ok |-> ok ])]
       IN  mig' = IF ok
                  THEN [called EXCEPT !.applied = Append(@, migration),
                                      !.k = @ + 1,
                                      !.pc = IF mig.k = Len(mig.path) THEN "commit"
                                             ELSE "apply"]
                  ELSE IF mig.applied = << >> THEN Return(called, "failed")
                  ELSE [called EXCEPT !.pc = "rollback",
                                      !.todo = rollback_order(mig.applied)]
    /\ UNCHANGED <<projVars, regVars, reqVars>>

\* one iteration of the rollback loop: rollback_migration is awaited; its
\* error is logged and the loop goes on
RollbackStep(ok) ==
    /\ mig.pc = "rollback"
    /\ LET called == [mig EXCEPT !.calls = Append(@, [ op |-> IF mig.direction = "Up"
                                                               THEN "down" ELSE "up",
                                                       migration |-> Head(mig.todo),
                                                       ok |-> ok ]),
                                 !.todo = Tail(@)]
       IN  mig' = IF Tail(mig.todo) = << >> THEN Return(called, "failed") ELSE called
    /\ UNCHANGED <<projVars, regVars, reqVars>>

\* every step succeeded: config.version = target is written
Commit ==
    /\ mig.pc = "commit"
    /\ LET written == write_config(dirs, files,
                          [StartConfig(mig) EXCEPT !.version = SemVerShow(mig.target)])
       IN  /\ files' = written.fs
           /\ mig' = Return(mig, IF written.ok THEN "success" ELSE "ConfigError")
    /\ UNCHANGED <<dirs, manifestFile, last, regVars, reqVars>>
-----------------------------------------------------------------------------
(* Project registry (src/src/registry/storage.rs, src/src/registry/tracking.rs) *)

TaskIds == 1..MaxTasks

\* the project paths requests carry; /w/link is a symlink to /w/p1
RequestPaths == {"/w/link", "/w/p2"}

\* path.canonicalize(), or the path itself when that fails
canonicalize(path) == IF path = "/w/link" THEN "/w/p1" ELSE path

\* ProjectRegistry::new(); times are written as the number of the call
\* that read them (0: before every call)
NewRegistry ==
    [updated_at |-> 0,
     projects |-> [p \in {} |-> [first_accessed |-> 0, last_accessed |-> 0]]]

\* a file of ~/.centy: absent, a complete serialized registry, or the
\* beginning of one (a write that has not finished)
AbsentFile == [kind |-> "absent", registry |-> NewRegistry]
CompleteFile(registry) == [kind |-> "complete", registry |-> registry]
PartialFile(registry) == [kind |-> "partial", registry |-> registry]

\* read_registry(): ProjectRegistry::new() when projects.json does not
\* exist, Err when it does not parse
read_registry(file) ==
    IF file.kind = "absent" THEN [ok |-> TRUE, registry |-> NewRegistry]
    ELSE IF file.kind = "partial" THEN [ok |-> FALSE, registry |-> NewRegistry]
    ELSE [ok |-> TRUE, registry |-> file.registry]

\* the body of track_project between read_registry and write_registry_unlocked
Tracked(registry, canonical_path, now) ==
    [updated_at |-> now,
     projects |->
        IF canonical_path \in DOMAIN registry.projects
        THEN [registry.projects EXCEPT ![canonical_path].last_accessed = now]
        ELSE (canonical_path :> [first_accessed |-> now, last_accessed |-> now])
                 @@ registry.projects]

\* the key untrack_project removes: the canonical path, else the original
\* one, else "" (ProjectNotFound)
UntrackKey(registry, path) ==
    IF canonicalize(path) \in DOMAIN registry.projects THEN canonicalize(path)
    ELSE IF path \in DOMAIN registry.projects THEN path
    ELSE ""

\* the body of untrack_project between read_registry and
\* write_registry_unlocked; ProjectNotFound leaves the registry as it is
Untracked(registry, path, now) ==
    IF UntrackKey(registry, path) = "" THEN registry
    ELSE [updated_at |-> now,
          projects |-> [p \in (DOMAIN registry.projects) \ {UntrackKey(registry, path)} |->
                           registry.projects[p]]]

\* an untrack that removes the entry of the canonical path and the entry
\* of the original path
untrack_project_RemovesBoth(registry, project_path, canonical_path, now) ==
    IF {canonical_path, project_path} \cap DOMAIN registry.projects = {}
    THEN [err |-> TRUE, written |-> FALSE, registry |-> registry]
    ELSE [err |-> FALSE, written |-> TRUE,
          registry |-> [updated_at |-> now,
                        projects |-> [p \in (DOMAIN registry.projects)
                                               \ {canonical_path, project_path} |->
                                         registry.projects[p]]]]

\* untrack_project after read_registry, canonical_path being
\* path.canonicalize() or the path itself when that fails: [err, written,
\* registry]; err is ProjectNotFound, written whether
\* write_registry_unlocked is called
untrack_project(registry, project_path, canonical_path, now) ==
    LET Without(key) ==
            [err |-> FALSE, written |-> TRUE,
             registry |-> [updated_at |-> now,
                           projects |-> [p \in (DOMAIN registry.projects) \ {key} |->
                                            registry.projects[p]]]]
    IN  IF canonical_path \in DOMAIN registry.projects THEN Without(canonical_path)
        ELSE IF project_path \in DOMAIN registry.projects THEN Without(project_path)
        ELSE [err |-> TRUE, written |-> FALSE, registry |-> registry]

\* UntrackProject and a tracking call, each run alone from its start to its
\* return; resolved tells whether path.canonicalize() succeeded
UntrackProject(path, resolved, now) ==
    LET canonical_path == IF resolved THEN canonicalize(path) ELSE path
        loaded == read_registry(regFile)
    IN  /\ loaded.ok
        /\ \E out \in {untrack_project(loaded.registry, path, canonical_path, now)} :
               /\ regFile' = IF out.written THEN CompleteFile(out.registry) ELSE regFile
               /\ serialReg' = out.registry
               /\ last' = [Done("Untrack", ~out.err) EXCEPT
                             !.id = path, !.id2 = canonical_path, !.before = regFile]
        /\ UNCHANGED <<dirs, files, manifestFile, migVars, reqVars, regTmp, regLock, tasks,
                       reader>>

TrackProject(path, resolved, now) ==
    LET canonical_path == IF resolved THEN canonicalize(path) ELSE path
        loaded == read_registry(regFile)
    IN  /\ loaded.ok
        /\ regFile' = CompleteFile(Tracked(loaded.registry, canonical_path, now))
        /\ serialReg' = Tracked(loaded.registry, canonical_path, now)
        /\ last' = [Done("Track", TRUE) EXCEPT !.id = path, !.id2 = canonical_path]
        /\ UNCHANGED <<dirs, files, manifestFile, migVars, reqVars, regTmp, regLock, tasks,
                       reader>>

\* the registry a call saves, given the one it loaded
Modified(op, path, registry, now) ==
    IF op = "Track" THEN Tracked(registry, canonicalize(path), now)
    ELSE Untracked(registry, path, now)

IdleTask == [pc |-> "unborn", op |-> "Track", path |-> "", registry |-> NewRegistry]

\* saw: the kind of file the last read found; saving: whether a task was
\* writing the registry at that moment
IdleReader == [pc |-> "idle", saw |-> "nothing", saving |-> FALSE]

\* tokio::spawn of track_project (track_project_async), or an
\* UntrackProject request
Spawn(t, op, path) ==
    /\ tasks[t].pc = "unborn"
    /\ tasks' = [tasks EXCEPT ![t] = [IdleTask EXCEPT !.pc = "start", !.op = op, !.path = path]]
    /\ UNCHANGED <<projVars, migVars, reqVars, regFile, regTmp, regLock, reader, serialReg>>

\* a lock that never makes a task wait
lock_always_available == TRUE

\* get_lock().lock().await returns only when no other task holds the guard
lock_available == regLock = 0

\* let _guard = get_lock().lock().await
Lock(t) ==
    /\ tasks[t].pc = "start"
    /\ lock_available
    /\ regLock' = t
    /\ tasks' = [tasks EXCEPT ![t].pc = "locked"]
    /\ UNCHANGED <<projVars, migVars, reqVars, regFile, regTmp, reader, serialReg>>

\* read_registry().await? and the change made in memory; untrack_project
\* returns ProjectNotFound (dropping the guard) when the path has no entry
Load(t) ==
    /\ tasks[t].pc = "locked"
    /\ LET loaded == read_registry(regFile)
           missing == tasks[t].op = "Untrack" /\ UntrackKey(loaded.registry, tasks[t].path) = ""
       IN  IF ~loaded.ok \/ missing
           THEN /\ tasks' = [tasks EXCEPT ![t].pc = "done"]
                /\ regLock' = IF regLock = t THEN 0 ELSE regLock
           ELSE /\ tasks' = [tasks EXCEPT
                                ![t].pc = "loaded",
                                ![t].registry = Modified(tasks[t].op, tasks[t].path,
                                                         loaded.registry, t)]
                /\ UNCHANGED regLock
    /\ UNCHANGED <<projVars, migVars, reqVars, regFile, regTmp, reader, serialReg>>

\* a save that writes projects.json itself
WriteBegin_InPlace(t) ==
    /\ tasks[t].pc = "loaded"
    /\ regFile' = PartialFile(tasks[t].registry)
    /\ tasks' = [tasks EXCEPT ![t].pc = "writing"]
    /\ UNCHANGED <<projVars, migVars, reqVars, regTmp, regLock, reader, serialReg>>

\* write_registry_unlocked, fs::write(&temp_path, ..): the temp file is
\* created or truncated and the first bytes are written
WriteBegin(t) ==
    /\ tasks[t].pc = "loaded"
    /\ regTmp' = PartialFile(tasks[t].registry)
    /\ tasks' = [tasks EXCEPT ![t].pc = "writing"]
    /\ UNCHANGED <<projVars, migVars, reqVars, regFile, regLock, reader, serialReg>>

\* fs::write(&temp_path, ..) completes
WriteEnd(t) ==
    /\ tasks[t].pc = "writing"
    /\ regTmp' = IF regTmp.kind = "absent" THEN regTmp ELSE CompleteFile(tasks[t].registry)
    /\ tasks' = [tasks EXCEPT ![t].pc = "written"]
    /\ UNCHANGED <<projVars, migVars, reqVars, regFile, regLock, reader, serialReg>>

\* fs::rename(&temp_path, &path): projects.json becomes the temp file
\* (the call fails when the temp file is gone)
Rename(t) ==
    /\ tasks[t].pc = "written"
    /\ IF regTmp.kind = "absent"
       THEN UNCHANGED <<regFile, regTmp, serialReg>>
       ELSE /\ regFile' = regTmp
            /\ regTmp' = AbsentFile
            /\ serialReg' = Modified(tasks[t].op, tasks[t].path, serialReg, t)
    /\ tasks' = [tasks EXCEPT ![t].pc = "renamed"]
    /\ UNCHANGED <<projVars, migVars, reqVars, regLock, reader>>

\* the call returns and its guard is dropped
Unlock(t) ==
    /\ tasks[t].pc = "renamed"
    /\ regLock' = IF regLock = t THEN 0 ELSE regLock
    /\ tasks' = [tasks EXCEPT ![t].pc = "done"]
    /\ UNCHANGED <<projVars, migVars, reqVars, regFile, regTmp, reader, serialReg>>

\* list_projects / get_project_info: path.exists() is tested without the lock
ReadBegin ==
    /\ reader.pc = "idle"
    /\ reader' = IF regFile.kind = "absent"
                 THEN [pc |-> "idle", saw |-> "absent",
                       saving |-> \E t \in TaskIds : tasks[t].pc = "writing"]
                 ELSE [reader EXCEPT !.pc = "reading"]
    /\ UNCHANGED <<projVars, migVars, reqVars, regFile, regTmp, regLock, tasks, serialReg>>

\* fs::read_to_string(&path) and serde_json::from_str
ReadEnd ==
    /\ reader.pc = "reading"
    /\ reader' = [pc |-> "idle", saw |-> regFile.kind,
                  saving |-> \E t \in TaskIds : tasks[t].pc = "writing"]
    /\ UNCHANGED <<projVars, migVars, reqVars, regFile, regTmp, regLock, tasks, serialReg>>

\* The daemon process dies: every running task is gone and the lock with
\* it; the files stay as they are.
Crash ==
    /\ \E t \in TaskIds : tasks[t].pc \notin {"unborn", "done", "crashed"}
    /\ tasks' = [t \in TaskIds |->
                    IF tasks[t].pc \in {"unborn", "done", "crashed"} THEN tasks[t]
                    ELSE [tasks[t] EXCEPT !.pc = "crashed"]]
    /\ regLock' = 0
    /\ reader' = [reader EXCEPT !.pc = "idle"]
    /\ UNCHANGED <<projVars, migVars, reqVars, regFile, regTmp, serialReg>>
-----------------------------------------------------------------------------
(* Specifications of a project's .centy/ folder *)

CurrentPlan == build_reconciliation_plan(dirs, files, manifestFile, CatalogOrders[1])

\* a project that was never initialised
InitProject ==
    /\ dirs = {}
    /\ files = EmptyFiles
    /\ manifestFile = NoManifest
    /\ last = Done("None", TRUE)
    /\ mig = MigIdle(create_registry)
    /\ regFile = AbsentFile
    /\ regTmp = AbsentFile
    /\ regLock = 0
    /\ tasks = [t \in TaskIds |-> IdleTask]
    /\ reader = IdleReader
    /\ serialReg = NewRegistry
    /\ reqs = [r \in RequestIds |-> IdleRequest]
    /\ daemon = NewDaemon(TRUE)

\* Decisions naming a path that the plan does not ask about have no effect
\* (the executor only tests membership of to_restore and to_reset paths).
DecisionSets(S) == {d \in SUBSET S : Cardinality(d) <= MaxDecided}

ExecuteRequest ==
    \E plan \in {CurrentPlan} :
        \E restore \in DecisionSets(PathsOf(plan.to_restore)),
           reset \in DecisionSets(PathsOf(plan.to_reset)) :
            \E force \in BOOLEAN, order \in IterOrders :
                Execute(restore, reset, force, order)

\* Init, and ExecuteReconciliation on a project whose catalog nobody edited
InitRequest == \E order \in IterOrders : Execute({}, {}, FALSE, order)

UserDeletes == \E p \in CatalogPaths \cup {RootDir} : UserDelete(p)

UserWrites ==
    \E p \in CatalogFiles :
        \E c \in UserContents \cup (IF p \in BinaryFiles THEN {InvalidUtf8} ELSE {}) :
            UserWrite(p, c)

\* Reconciliation: Execute requests, and the user between them
NextRecon ==
    \/ ExecuteRequest
    \/ UserDeletes
    \/ UserWrites
    \/ UserDeleteManifest

SpecRecon == InitProject /\ [][NextRecon]_vars

\* the issue folders and doc slugs of the requests below
OpenIssueIds == {IssueIdSeq[i] : i \in 1..(IF MaxOpen < 6 THEN MaxOpen ELSE 6)}
DocSlugSeq == <<"guide", "intro", "notes">>
OpenSlugs == {DocSlugSeq[i] : i \in 1..(IF MaxOpen < 3 THEN MaxOpen ELSE 3)}
ExistingIssues == {id \in OpenIssueIds : IssueDir(id) \in dirs}
ExistingDocs == {s \in OpenSlugs : DocPath(s) \in DOMAIN files}

\* the time now_iso() returns: the present, later than any synced stamp
Present == {MaxStamp}

CreateIssueRequest ==
    \E id \in OpenIssueIds, now \in Present, overflow_checks \in BOOLEAN :
        /\ get_next_display_number(dirs, files).value \in 1..MaxNumber
        /\ CreateIssue([title |-> "Login bug", description |-> "", priority |-> 0,
                        status |-> Keep, custom_fields |-> NoFields, template |-> Keep],
                       id, now, overflow_checks)

UpdateIssueRequest ==
    \E id \in ExistingIssues, now \in Present :
        UpdateIssue(id, [title |-> "Crash", description |-> Keep, status |-> "closed",
                         priority |-> 0, custom_fields |-> NoFields], now)

DeleteIssueRequest == \E id \in ExistingIssues : DeleteIssue(id)

CreateDocRequest ==
    \E now \in Present :
        CreateDoc([title |-> "Guide", content |-> "body", slug |-> ""], now)

UpdateDocRequest ==
    \E slug \in ExistingDocs, now \in Present :
        \E options \in { [title |-> Keep, content |-> "new body", new_slug |-> ""] }
                       \cup { [title |-> Keep, content |-> Keep, new_slug |-> s]
                              : s \in OpenSlugs } :
            UpdateDoc(slug, options, now)

DeleteDocRequest == \E slug \in ExistingDocs : DeleteDoc(slug)

ReconcileRequest ==
    \E k1 \in OrderChoices, k2 \in OrderChoices, now \in Present, overflow_checks \in BOOLEAN :
        ReconcileDisplayNumbers(k1, k2, now, overflow_checks)

PeerSyncs ==
    \E id \in OpenIssueIds, n \in 1..MaxDisplay, t \in Stamps : PeerSync(id, n, t)

\* The mutating operations, run one at a time
NextManifest ==
    \/ InitRequest
    \/ CreateIssueRequest
    \/ UpdateIssueRequest
    \/ DeleteIssueRequest
    \/ CreateDocRequest
    \/ UpdateDocRequest
    \/ DeleteDocRequest

SpecManifest == InitProject /\ [][NextManifest]_vars

\* The mutating operations, display-number reconciliation, and pulls from clones
NextProject ==
    \/ InitRequest
    \/ CreateIssueRequest
    \/ UpdateIssueRequest
    \/ DeleteIssueRequest
    \/ CreateDocRequest
    \/ UpdateDocRequest
    \/ DeleteDocRequest
    \/ ReconcileRequest
    \/ PeerSyncs

SpecProject == InitProject /\ [][NextProject]_vars

\* Number of issue folders present when reconciliation is requested
RECURSIVE SyncedSets(_)
SyncedSets(n) ==
    IF n = 0 THEN {EmptyFiles}
    ELSE {SyncedFiles(IssueIdSeq[n], d, t) @@ fs :
            d \in (0..MaxDisplay) \cup {U32Max}, t \in Stamps, fs \in SyncedSets(n - 1)}

\* a project whose issues/ holds the folders of the first n ids, as clones
\* (and earlier daemon versions, which wrote no displayNumber) left them
InitDisplay ==
    /\ \E n \in 0..(IF MaxIssues < 6 THEN MaxIssues ELSE 6) :
        /\ files \in SyncedSets(n)
        /\ dirs = UNION {Ancestors(IssueAssetsDir(IssueIdSeq[i])) : i \in 1..n}
                  \cup Ancestors(IssuesDir)
    /\ manifestFile = NoManifest
    /\ last = Done("None", TRUE)
    /\ mig = MigIdle(create_registry)
    /\ regFile = AbsentFile
    /\ regTmp = AbsentFile
    /\ regLock = 0
    /\ tasks = [t \in TaskIds |-> IdleTask]
    /\ reader = IdleReader
    /\ serialReg = NewRegistry
    /\ reqs = [r \in RequestIds |-> IdleRequest]
    /\ daemon = NewDaemon(TRUE)

NextDisplay == ReconcileRequest

SpecDisplay == InitDisplay /\ [][NextDisplay]_vars
-----------------------------------------------------------------------------
(* Specification of Migrate calls on one project *)

\* what config.json holds when Migrate is called: a config whose version is
\* absent, written by the daemon, or edited by hand ("0.01.0", "1.0"), or
\* text that is not a config
StoredVersions ==
    {NoVersion} \cup {SemVerShow(v) : v \in Versions} \cup {<<"0", "01", "0">>, <<"1", "0">>}

StoredConfigs ==
    {ConfigJson([DefaultConfig EXCEPT !.version = v]) : v \in StoredVersions}
        \cup {Text("{ \"version\": ")}

\* any registry; .centy/ missing, without config.json, or with one
InitMigrate ==
    /\ \E registry \in Registries : mig = MigIdle(registry)
    /\ \/ dirs = {} /\ files = EmptyFiles
       \/ dirs = {RootDir} /\ files = EmptyFiles
       \/ dirs = {RootDir} /\ \E c \in StoredConfigs : files = (ConfigPath :> c)
    /\ manifestFile = NoManifest
    /\ last = Done("None", TRUE)
    /\ regFile = AbsentFile
    /\ regTmp = AbsentFile
    /\ regLock = 0
    /\ tasks = [t \in TaskIds |-> IdleTask]
    /\ reader = IdleReader
    /\ serialReg = NewRegistry
    /\ reqs = [r \in RequestIds |-> IdleRequest]
    /\ daemon = NewDaemon(TRUE)

NextMigrate ==
    \/ \E target \in Versions : MigrateBegin(target)
    \/ \E ok \in BOOLEAN : ApplyStep(ok)
    \/ \E ok \in BOOLEAN : RollbackStep(ok)
    \/ Commit

SpecMigrate == InitMigrate /\ [][NextMigrate]_vars

-----------------------------------------------------------------------------
(* Specification of the registry under concurrent calls *)

\* projects.json does not exist yet, or holds a registry saved earlier
InitRegistry ==
    /\ regFile \in {AbsentFile, CompleteFile(Tracked(NewRegistry, "/w/p1", 0))}
    /\ serialReg = read_registry(regFile).registry
    /\ reqs = [r \in RequestIds |-> IdleRequest]
    /\ daemon = NewDaemon(TRUE)
    /\ regTmp = AbsentFile
    /\ regLock = 0
    /\ tasks = [t \in TaskIds |-> IdleTask]
    /\ reader = IdleReader
    /\ mig = MigIdle(create_registry)
    /\ dirs = {}
    /\ files = EmptyFiles
    /\ manifestFile = NoManifest
    /\ last = Done("None", TRUE)

NextRegistry ==
    \/ \E t \in TaskIds, op \in {"Track", "Untrack"}, path \in RequestPaths : Spawn(t, op, path)
    \/ \E t \in TaskIds : Lock(t)
    \/ \E t \in TaskIds : Load(t)
    \/ \E t \in TaskIds : WriteBegin(t)
    \/ \E t \in TaskIds : WriteEnd(t)
    \/ \E t \in TaskIds : Rename(t)
    \/ \E t \in TaskIds : Unlock(t)
    \/ ReadBegin
    \/ ReadEnd
    \/ Crash

SpecRegistry == InitRegistry /\ [][NextRegistry]_vars
-----------------------------------------------------------------------------
(* C1: the plan after a forced Execute without decisions *)

\* the last request was Execute(decisions = {}, force = true) and it succeeded
ForcedExecuteDone(l) ==
    /\ l.op = "Execute"
    /\ l.ok
    /\ l.force
    /\ l.restore = {}
    /\ l.reset = {}

\* C1 as stated: a Plan built right after a successful
\* Execute(decisions = {}, force = true) has toCreate, toRestore and toReset
\* all empty.
C1_AsStated ==
    ForcedExecuteDone(last) =>
        /\ CurrentPlan.to_create = << >>
        /\ CurrentPlan.to_restore = << >>
        /\ CurrentPlan.to_reset = << >>

\* C1 amended: Plan, then Execute(decisions = {}, force = true), then Plan
\* yields toCreate and toRestore empty, and toReset holding exactly the catalog
\* files that the first Plan had in toReset (the files the user modified are
\* kept, since only decisions.reset overwrites them); so all three are empty
\* when no catalog file was modified.
C1_PlanStabilizes ==
    [][ ForcedExecuteDone(last') =>
          LET before == build_reconciliation_plan(dirs, files, manifestFile, CatalogOrders[1])
              after  == build_reconciliation_plan(dirs', files', manifestFile', CatalogOrders[1])
          IN  /\ after.to_create = << >>
              /\ after.to_restore = << >>
              /\ PathsOf(after.to_reset) = PathsOf(before.to_reset) ]_vars

\* C1's case: a forced Execute without decisions has run on a project whose
\* README.md the user had modified; every catalog path is on disk again and
\* the modified file is still reported in toReset.
C1_Witness ==
    /\ ForcedExecuteDone(last)
    /\ CatalogPaths \subseteq scan_centy_folder(dirs, files)
    /\ PathsOf(CurrentPlan.to_reset) = {<<"README.md", "", "">>}
    /\ CurrentPlan.to_create = << >>
    /\ CurrentPlan.to_restore = << >>

-----------------------------------------------------------------------------
(* C2, C3: display numbers after ReconcileDisplayNumbers *)

ReconcileDone(l) == l.op = "ReconcileDisplayNumbers" /\ l.ok

\* the display number stored in the metadata.json of a readable issue
DisplayNumberOf(id) == MetadataOf(files, id).display_number

\* C2: after ReconcileDisplayNumbers completes successfully, no two issues
\* with displayNumber > 0 share the same displayNumber.
C2_DisplayNumbersInjective ==
    ReconcileDone(last) =>
        \A a, b \in ReadableIssues(dirs, files) :
            (a # b /\ DisplayNumberOf(a) # 0) => DisplayNumberOf(a) # DisplayNumberOf(b)

\* C2's case: reconciliation has run on at least two issues, has succeeded,
\* and two of them still share a number above 0.
C2_Witness ==
    /\ ReconcileDone(last)
    /\ \E a, b \in ReadableIssues(dirs, files) :
           a # b /\ DisplayNumberOf(a) # 0 /\ DisplayNumberOf(a) = DisplayNumberOf(b)

\* C3: after ReconcileDisplayNumbers completes successfully, no issue has
\* displayNumber = 0, whether there was one legacy issue or several.
C3_NoZeroDisplayNumber ==
    ReconcileDone(last) =>
        \A a \in ReadableIssues(dirs, files) : DisplayNumberOf(a) # 0

\* C3's case: reconciliation has succeeded on a project with exactly one
\* issue, and that issue still has displayNumber 0.
C3_Witness ==
    /\ ReconcileDone(last)
    /\ Cardinality(ReadableIssues(dirs, files)) = 1
    /\ \E a \in ReadableIssues(dirs, files) : DisplayNumberOf(a) = 0

-----------------------------------------------------------------------------
(* C4, C5: the manifest after a mutating operation *)

MutatingOps ==
    {"Execute", "CreateIssue", "UpdateIssue", "DeleteIssue", "CreateDoc", "UpdateDoc",
     "DeleteDoc"}

\* number of entries of the manifest m with the path p
EntryCount(m, p) == Cardinality({i \in 1..Len(m) : m[i].path = p})

IsSortedByPath(m) == \A i \in 1..(Len(m) - 1) : ~PathLess(m[i + 1].path, m[i].path)

\* the paths the operation recorded in l writes, given the disk after it
WrittenPaths(l, ds, fs) ==
    CASE l.op = "Execute" -> CatalogPaths \cap scan_centy_folder(ds, fs)
      [] l.op = "CreateIssue" ->
            {IssueDir(l.id), IssueMdPath(l.id), MetadataPath(l.id), IssueAssetsDir(l.id)}
      [] l.op = "UpdateIssue" -> {IssueMdPath(l.id), MetadataPath(l.id)}
      [] l.op = "CreateDoc" -> {DocPath(l.id)}
      [] l.op = "UpdateDoc" -> {DocPath(l.id2)}
      [] OTHER -> {}

\* the paths, among those of the set S, that the operation recorded in l removes
RemovedPaths(l, S) ==
    CASE l.op = "DeleteIssue" -> {p \in S : InIssueFolder(p, l.id)}
      [] l.op = "DeleteDoc" -> {DocPath(l.id)}
      [] l.op = "UpdateDoc" -> {DocPath(l.id)} \ {DocPath(l.id2)}
      [] OTHER -> {}

\* C4: after any successful mutating operation (Execute, CreateIssue,
\* UpdateIssue, DeleteIssue, CreateDoc, UpdateDoc, DeleteDoc), run one at a
\* time, the manifest on disk exists, is sorted by path, and holds exactly one
\* entry for each path the operation wrote and each path it preserved, and
\* no other entry.
C4_ManifestSortedUnique ==
    [][ (last'.op \in MutatingOps /\ last'.ok) =>
          LET old == manifestFile.managedFiles
              new == manifestFile'.managedFiles
              kept == (PathsOf(old) \ RemovedPaths(last', PathsOf(old)))
                          \cup WrittenPaths(last', dirs', files')
          IN  /\ manifestFile'.exists
              /\ IsSortedByPath(new)
              /\ PathsOf(new) = kept
              /\ \A p \in kept : EntryCount(new, p) = 1 ]_vars

\* C4's case: a doc was renamed by UpdateDoc in a project that holds an
\* issue too: an entry was removed, one written and others preserved.
C4_Witness ==
    /\ last.op = "UpdateDoc"
    /\ last.ok
    /\ last.id # last.id2
    /\ find_managed_file(manifestFile.managedFiles, DocPath(last.id2))
    /\ \E id \in IssueIds : find_managed_file(manifestFile.managedFiles, MetadataPath(id))

\* C5: after any successful mutating operation, including
\* ReconcileDisplayNumbers, every manifest entry of type file whose file
\* exists on disk has hash equal to the SHA-256 of the bytes on disk.
C5_HashesMatchDisk ==
    (last.ok /\ last.op \in MutatingOps \cup {"ReconcileDisplayNumbers"}) =>
        \A i \in 1..Len(manifestFile.managedFiles) :
            LET f == manifestFile.managedFiles[i]
            IN  (f.file_type = "file" /\ f.path \in DOMAIN files) =>
                    f.hash = compute_hash(files[f.path])

\* C5's case: ReconcileDisplayNumbers has succeeded and the manifest entry
\* of a metadata.json it rewrote holds the hash of the old bytes.
C5_Witness ==
    /\ ReconcileDone(last)
    /\ \E i \in 1..Len(manifestFile.managedFiles) :
           LET f == manifestFile.managedFiles[i]
           IN  /\ f.path[3] = "metadata.json"
               /\ f.path \in DOMAIN files
               /\ f.hash # compute_hash(files[f.path])
-----------------------------------------------------------------------------
(* C6, C7, C8: Migrate *)

\* the call made on a migration, without its outcome
CallOf(c) == [op |-> c.op, migration |-> c.migration]

ForwardOp(m) == IF m.direction = "Up" THEN "up" ELSE "down"
OppositeOp(m) == IF m.direction = "Up" THEN "down" ELSE "up"

\* the calls expected of a Migrate whose step k failed: steps 1..k in the
\* direction of the path, then the opposite operation on steps k-1..1
ExpectedCalls(m, k) ==
    [i \in 1..(2 * k - 1) |->
        IF i <= k THEN [op |-> ForwardOp(m), migration |-> m.path[i]]
        ELSE [op |-> OppositeOp(m), migration |-> m.path[2 * k - i]]]

\* C6: when step k of the path fails, the opposite operation is invoked
\* exactly once on each of the applied steps 1..k-1, in reverse order of
\* application; the failed step and the steps after it are neither applied
\* again nor rolled back; a failing rollback does not stop the rollback of
\* the remaining steps.
C6_RollbackInReverse ==
    (mig.pc = "rollback" \/ (mig.pc = "done" /\ mig.result = "failed")) =>
        /\ mig.k \in 1..Len(mig.path)
        /\ Len(mig.calls) \in mig.k..(2 * mig.k - 1)
        /\ mig.pc = "done" => Len(mig.calls) = 2 * mig.k - 1
        /\ \A i \in 1..Len(mig.calls) : CallOf(mig.calls[i]) = ExpectedCalls(mig, mig.k)[i]
        /\ \A i \in 1..Len(mig.calls) : (i < mig.k) => mig.calls[i].ok
        /\ ~mig.calls[mig.k].ok

\* C6's case: the third step of a path failed, the rollback of the second
\* step failed too, and the first step was rolled back all the same.
C6_Witness ==
    /\ mig.pc = "done"
    /\ mig.result = "failed"
    /\ mig.k = 3
    /\ Len(mig.calls) = 5
    /\ ~mig.calls[4].ok
    /\ mig.calls[5].migration = mig.path[1]

\* C7: whenever Migrate does not succeed, config.json is as it was when the
\* call started; it differs only once every step of the path has succeeded;
\* NoMigrationPath is returned before any step is applied.
C7_VersionKeptOnFailure ==
    /\ (mig.pc \in {"apply", "rollback", "commit"} \/ (mig.pc = "done" /\ mig.result # "success"))
           => ConfigFileOf(files) = mig.config
    /\ (mig.pc # "idle" /\ ConfigFileOf(files) # mig.config) =>
           /\ mig.result = "success"
           /\ Len(mig.calls) = Len(mig.path)
           /\ \A i \in 1..Len(mig.calls) : mig.calls[i].ok
    /\ (mig.pc = "done" /\ mig.result = "NoMigrationPath") => mig.calls = << >>

\* C7's case: a Migrate on a project with a stored version failed at its
\* second step or later, after a step had been applied and rolled back.
C7_Witness ==
    /\ mig.pc = "done"
    /\ mig.result = "failed"
    /\ Len(mig.calls) >= 3
    /\ read_config(files).some
    /\ read_config(files).value.version # NoVersion

\* the version string config.json holds, "0.0.0" for an absent one
StoredVersion(fs) ==
    IF read_config(fs).some /\ read_config(fs).value.version # NoVersion
    THEN read_config(fs).value.version
    ELSE SemVerShow(<<0, 0, 0>>)

\* C8: whenever Migrate(P, target) returns success = true, the
\* config.version stored on disk afterwards equals target (an absent version
\* counting as 0.0.0).
C8_SuccessStoresTarget ==
    (mig.pc = "done" /\ mig.result = "success") =>
        StoredVersion(files) = SemVerShow(mig.target)

\* C8's case: Migrate returned success and the stored version is not the
\* string of the target.
C8_Witness ==
    /\ mig.pc = "done"
    /\ mig.result = "success"
    /\ StoredVersion(files) # SemVerShow(mig.target)

-----------------------------------------------------------------------------
(* C9, C10: the registry under concurrent calls *)

\* the tasks between taking the lock and dropping it
InCriticalSection ==
    {t \in TaskIds : tasks[t].pc \in {"locked", "loaded", "writing", "written", "renamed"}}

\* C9: at most one task is between loading and saving the registry, and
\* whenever no task is there the registry on disk is the one obtained by
\* applying the calls that saved, one after another: no update is lost.
C9_Serializable ==
    /\ Cardinality(InCriticalSection) <= 1
    /\ InCriticalSection = {} =>
           /\ read_registry(regFile).ok
           /\ read_registry(regFile).registry = serialReg

\* C9's case: Track(/w/link) and Track(/w/p2) ran concurrently, the second
\* task saved first, and both entries are in projects.json.
C9_Witness ==
    /\ \A t \in TaskIds : tasks[t].pc = "done" /\ tasks[t].op = "Track"
    /\ regFile.kind = "complete"
    /\ {"/w/p1", "/w/p2"} \subseteq DOMAIN regFile.registry.projects
    /\ regFile.registry.projects["/w/p2"].first_accessed = 2
    /\ regFile.registry.updated_at = 1

\* C10: at every instant, crashes included, projects.json does not exist or
\* holds one complete serialized registry, and a read made without the lock
\* never finds a partially written one.
C10_NeverPartial ==
    /\ regFile.kind \in {"absent", "complete"}
    /\ reader.saw # "partial"

\* C10's case: a read without the lock found a complete registry while a
\* task was writing, and the process then died with the temp file half
\* written.
C10_Witness ==
    /\ reader.saw = "complete"
    /\ reader.saving
    /\ regTmp.kind = "partial"
    /\ \E t \in TaskIds : tasks[t].pc = "crashed"

-----------------------------------------------------------------------------
(* Concurrent issue requests *)

\* the options of a CreateIssue request that names a title only
PlainOptions ==
    [ title |-> "Login bug", description |-> "", priority |-> 0, status |-> Keep,
      custom_fields |-> NoFields, template |-> Keep ]

\* the project after Init
InitializedProject ==
    LET out == ExecBody({}, EmptyFiles, NoManifest, {}, {}, FALSE, CatalogOrders[1])
    IN  [ok |-> TRUE, ds |-> out.ds, fs |-> out.fs, mf |-> write_manifest(out.m)]

\* the project after Init and one CreateIssue, served alone
SeededProject ==
    create_issue(InitializedProject.ds, InitializedProject.fs, InitializedProject.mf,
                 PlainOptions, IssueIdSeq[3], 1, FALSE)

\* the folder names the concurrent CreateIssue requests generate
RaceIds == {IssueIdSeq[1], IssueIdSeq[2]}

Settled == \A r \in RequestIds : reqs[r].pc \in {"idle", "done", "failed"}

InitRace ==
    /\ dirs = SeededProject.ds
    /\ files = SeededProject.fs
    /\ manifestFile = SeededProject.mf
    /\ last = Done("None", TRUE)
    /\ mig = MigIdle(create_registry)
    /\ regFile = AbsentFile
    /\ regTmp = AbsentFile
    /\ regLock = 0
    /\ tasks = [t \in TaskIds |-> IdleTask]
    /\ reader = IdleReader
    /\ serialReg = NewRegistry
    /\ reqs = [r \in RequestIds |-> IdleRequest]
    /\ daemon = NewDaemon(TRUE)

\* Two requests, each a CreateIssue or a DeleteIssue, whose filesystem calls
\* interleave in every way, and reconciliation once no request is running
NextRace ==
    \/ \E r \in RequestIds, id \in RaceIds : Receive(r, "CreateIssue", id, PlainOptions)
    \/ \E r \in RequestIds : Receive(r, "DeleteIssue", IssueIdSeq[3], << >>)
    \/ \E r \in RequestIds : LoadManifest(r)
    \/ \E r \in RequestIds, now \in Present, overflow_checks \in BOOLEAN :
           NextNumber(r, now, overflow_checks)
    \/ \E r \in RequestIds : WriteIssueMd(r)
    \/ \E r \in RequestIds : WriteMetadata(r)
    \/ \E r \in RequestIds : RemoveFolder(r)
    \/ \E r \in RequestIds : OpenManifest(r)
    \/ \E r \in RequestIds : WriteManifest(r)
    \/ Settled /\ ReconcileRequest

SpecRace == InitRace /\ [][NextRace]_vars

\* r has computed its display number and has not written its metadata.json
NumberInHand(r) == reqs[r].op = "CreateIssue" /\ reqs[r].pc \in {"numbered", "folder"}

\* two CreateIssue requests have completed with the same display number
RacedCreates ==
    \E r, q \in RequestIds :
        /\ r # q
        /\ reqs[r].op = "CreateIssue" /\ reqs[r].pc = "done"
        /\ reqs[q].op = "CreateIssue" /\ reqs[q].pc = "done"
        /\ reqs[r].number = reqs[q].number

AllDistinct(ds, fs) ==
    \A a, b \in ReadableIssues(ds, fs) :
        a # b => MetadataOf(fs, a).display_number # MetadataOf(fs, b).display_number

\* C11: two CreateIssue requests that both compute the next display number
\* before either writes its metadata.json (no third request being served
\* meanwhile) hold the same number; after both
\* have completed, one ReconcileDisplayNumbers run leaves all issues with
\* pairwise distinct display numbers.
C11_RaceThenReconcile ==
    /\ [](\A r, q \in RequestIds :
             ( /\ NumberInHand(r) /\ NumberInHand(q)
               /\ \A o \in RequestIds \ {r, q} : reqs[o].pc = "idle" )
             => reqs[r].number = reqs[q].number)
    /\ [][(RacedCreates /\ Settled /\ ReconcileDone(last')) => AllDistinct(dirs', files')]_vars

\* C11's case: the two requests completed with the same number, both folders
\* are on disk, and reconciliation has run and left distinct numbers.
C11_Witness ==
    /\ RacedCreates
    /\ ReconcileDone(last)
    /\ RaceIds \subseteq ReadableIssues(dirs, files)
    /\ AllDistinct(dirs, files)

\* the request whose manifest write is the last step taken
LastWriter == CHOOSE r \in RequestIds : reqs[r].id = last.id

\* C12: after two overlapping mutating requests have both completed, the
\* manifest file is exactly the in-memory manifest of the request whose
\* manifest write happened last.
C12_LastWriterWins ==
    ( /\ \A r \in RequestIds : reqs[r].pc = "done"
      /\ last.op = "WriteManifest" )
    => manifestFile = write_manifest(reqs[LastWriter].m)

\* C12's case: both requests have completed, and the file holds the last
\* writer's document followed by bytes of the other request's document.
C12_Witness ==
    /\ \A r \in RequestIds : reqs[r].pc = "done"
    /\ last.op = "WriteManifest"
    /\ manifestFile.managedFiles = write_manifest(reqs[LastWriter].m).managedFiles
    /\ Len(manifestFile.rest) > 1

-----------------------------------------------------------------------------
(* Execute among the user's own files, run to its end, failing or cancelled *)

\* the most filesystem calls a cancelled Execute has made
MaxCalls == 11

\* files of the user's own: one with a free name, one with the name of a
\* catalog directory
UserFilePaths == { <<"notes.txt", "", "">>, <<"issues", "", "">> }

\* a directory of the user's own, with the name of a catalog file
UserDirPaths == { <<"README.md/", "", "">> }

\* the catalog paths the user removes or edits in this specification
TouchedPaths == { <<"README.md", "", "">>, <<"issues/", "", "">> }

ExecuteCancelledRequest ==
    \E plan \in {CurrentPlan} :
        \E restore \in DecisionSets(PathsOf(plan.to_restore)),
           reset \in DecisionSets(PathsOf(plan.to_reset)) :
            \E force \in BOOLEAN, order \in IterOrders, left \in 0..MaxCalls :
                ExecuteCancelled(restore, reset, force, order, left)

NextCancel ==
    \/ ExecuteRequest
    \/ ExecuteCancelledRequest
    \/ \E p \in TouchedPaths \cup UserFilePaths \cup UserDirPaths : UserDelete(p)
    \/ \E p \in (TouchedPaths \cap CatalogFiles) \cup UserFilePaths, c \in UserContents :
           UserWrite(p, c)
    \/ \E p \in UserDirPaths : UserMkdir(p)

SpecCancel == InitProject /\ [][NextCancel]_vars

\* the paths below .centy/ that are not catalog paths
UserPaths(ds, fs) == (ds \cup DOMAIN fs) \ (CatalogPaths \cup {RootDir})

ExecuteEnded(l) == l.op \in {"Execute", "ExecuteCancelled"}

\* C13: Execute never creates, overwrites or deletes a path that is not in
\* the catalog: every user file and directory exists with the same content
\* after Execute as before, whatever the decisions and force, also when
\* Execute fails or is cancelled.
C13_UserFilesUntouched ==
    [][ExecuteEnded(last') =>
          /\ UserPaths(dirs', files') = UserPaths(dirs, files)
          /\ \A p \in UserPaths(dirs, files) :
                 /\ p \in dirs <=> p \in dirs'
                 /\ p \in DOMAIN files => files'[p] = files[p]]_vars

\* C13's case: an Execute has failed on a project that holds a file of the
\* user's with the name of a catalog directory, and the file is still there.
C13_Witness ==
    /\ last.op = "Execute"
    /\ ~last.ok
    /\ <<"issues", "", "">> \in DOMAIN files
    /\ <<"notes.txt", "", "">> \in DOMAIN files

\* C14: when an Execute is cancelled after a prefix of its filesystem calls,
\* before the manifest is saved, a complete Execute with the same decisions
\* and force that directly follows leaves the disk and the manifest's paths
\* and hashes that one uninterrupted Execute would have left.
C14_RetryAfterCancel ==
    [][(last.op = "ExecuteCancelled" /\ last'.op = "Execute" /\ last'.retry /\ last'.ok) =>
          \A order \in IterOrders :
              \E whole \in {ExecBody(last.before.ds, last.before.fs, last.before.mf,
                                     last'.restore, last'.reset, last'.force, order)} :
                  /\ whole.stop = ""
                  /\ dirs' = whole.ds
                  /\ files' = whole.fs
                  /\ manifestFile' = write_manifest(whole.m)]_vars

\* C14's case: an Execute has completed directly after a cancelled Execute
\* with the same arguments.
C14_Witness ==
    /\ last.op = "Execute"
    /\ last.retry
    /\ last.ok
    /\ manifestFile.exists

\* C15: Execute with empty decisions and force = false on a project that has
\* no .centy/ creates all eight catalog paths and saves a manifest holding
\* exactly those eight entries, sorted by path.
C15_FreshInit ==
    [][( /\ RootDir \notin dirs
         /\ last'.op = "Execute" /\ last'.restore = {} /\ last'.reset = {} /\ ~last'.force )
       => /\ last'.ok
          /\ Cardinality(CatalogPaths) = 8
          /\ \A p \in CatalogPaths :
                 IF get_managed_files[p].file_type = "directory" THEN p \in dirs'
                 ELSE p \in DOMAIN files' /\ files'[p] = get_managed_files[p].content
          /\ manifestFile'.exists
          /\ Len(manifestFile'.managedFiles) = 8
          /\ {manifestFile'.managedFiles[i].path : i \in 1..8} = CatalogPaths
          /\ IsSortedByPath(manifestFile'.managedFiles)]_vars

\* C15's case: the first Execute on a project has completed and the manifest
\* holds the eight catalog entries.
C15_Witness ==
    /\ last.op = "Execute"
    /\ last.ok
    /\ last.restore = {} /\ last.reset = {} /\ ~last.force
    /\ Len(manifestFile.managedFiles) = 8
    /\ \A p \in CatalogPaths : p \in dirs \cup DOMAIN files

-----------------------------------------------------------------------------
(* CreateIssue requests of every kind, one after another *)

\* CreateIssue requests: a plain one; one with surrounding blanks, a
\* description, a priority and a custom field; one with a blank title; one
\* with a priority above priority_levels; one that names a template
CreateOptionSet ==
    { PlainOptions,
      [ title |-> " Login bug ", description |-> "Steps ", priority |-> 2, status |-> "open",
        custom_fields |-> ("area" :> "ui"), template |-> Keep ],
      [PlainOptions EXCEPT !.title = " "],
      [PlainOptions EXCEPT !.priority = DefaultPriorityLevels + 1],
      [PlainOptions EXCEPT !.template = "bug.md"] }

AnyCreateIssueRequest ==
    \E id \in IssueIds, options \in CreateOptionSet, now \in Present,
       overflow_checks \in BOOLEAN :
        /\ get_next_display_number(dirs, files).value \in 1..MaxNumber
        /\ CreateIssue(options, id, now, overflow_checks)

\* the user adds the issue template bug.md
AddTemplate == UserWrite(IssueTemplatePath("bug.md"), Text("## {{title}}"))

NextCreate ==
    \/ InitRequest
    \/ AnyCreateIssueRequest
    \/ AddTemplate
    \/ UserDeleteManifest

SpecCreate == InitProject /\ [][NextCreate]_vars

\* the display numbers of the readable issues
DisplayNumbers(ds, fs) == {MetadataOf(fs, id).display_number : id \in ReadableIssues(ds, fs)}

CreateDone(l) == l.op = "CreateIssue" /\ l.ok

\* C16: CreateIssue gives the new issue displayNumber 1 + the largest
\* displayNumber of the existing issues (1 when there is none), so that
\* successive creations on a project whose issues hold 1..n continue with n+1.
C16_NextDisplayNumber ==
    [][CreateDone(last') =>
          /\ last'.id \in ReadableIssues(dirs', files')
          /\ MetadataOf(files', last'.id).display_number
               = 1 + SetMax(DisplayNumbers(dirs, files))
          /\ \A n \in 0..MaxNumber :
                 DisplayNumbers(dirs, files) = 1..n
                 => DisplayNumbers(dirs', files') = 1..(n + 1)]_vars

\* C16's case: three creations have succeeded one after another and the
\* third issue holds displayNumber 3.
C16_Witness ==
    /\ CreateDone(last)
    /\ DisplayNumbers(dirs, files) = 1..3
    /\ MetadataOf(files, last.id).display_number = 3

\* the issue folders on disk
IssueDirs(ds) == {d \in ds : d[1] = "issues/" /\ d[2] # ""}

\* C20: when CreateIssue returns an error (blank title, no manifest,
\* priority out of range, missing template), no issue folder has been
\* created and the manifest on disk is unchanged.
C20_FailedCreateLeavesNothing ==
    [][(last'.op = "CreateIssue" /\ ~last'.ok) =>
          /\ IssueDirs(dirs') = IssueDirs(dirs)
          /\ files' = files
          /\ manifestFile' = manifestFile]_vars

\* C20's case: a CreateIssue naming a template that does not exist has
\* failed on an initialised project, after issues/ was looked at.
C20_Witness ==
    /\ last.op = "CreateIssue"
    /\ ~last.ok
    /\ last.options.template = "bug.md"
    /\ ~IsBlank(last.options.title)
    /\ manifestFile.exists
    /\ IssuesDir \in dirs

-----------------------------------------------------------------------------
(* Issues created, updated, deleted and listed, one request after another *)

\* the user adds the issue template bug.md with the title alone
AddTitleTemplate == UserWrite(IssueTemplatePath("bug.md"), TitleOnly)

\* CreateIssue requests: a plain one, one with blanks around the title and
\* two custom fields, one rendered from the template
IssueCreateOptionSet ==
    { PlainOptions,
      [ title |-> " Login bug ", description |-> "Steps ", priority |-> 2, status |-> "open",
        custom_fields |-> ("area" :> "ui") @@ ("env" :> "prod"), template |-> Keep ],
      [PlainOptions EXCEPT !.title = " Login bug ", !.template = "bug.md"] }

\* UpdateIssue requests; Keep, 0 and no custom fields stand for a field
\* the request leaves out
NoUpdate ==
    [ title |-> Keep, description |-> Keep, status |-> Keep, priority |-> 0,
      custom_fields |-> NoFields ]

IssueUpdateOptionSet ==
    { [NoUpdate EXCEPT !.status = "closed"],
      [NoUpdate EXCEPT !.title = "Crash", !.priority = 1],
      [NoUpdate EXCEPT !.custom_fields = ("area" :> "api")] }

\* requests are created at the first stamp and updated at the present
IssueCreateRequest ==
    \E id \in OpenIssueIds, options \in IssueCreateOptionSet, overflow_checks \in BOOLEAN :
        /\ get_next_display_number(dirs, files).value \in 1..MaxNumber
        /\ CreateIssue(options, id, 1, overflow_checks)

IssueUpdateRequest ==
    \E id \in OpenIssueIds, options \in IssueUpdateOptionSet, now \in Present :
        UpdateIssue(id, options, now)

IssueDeleteRequest == \E id \in OpenIssueIds : DeleteIssue(id)

NextIssues ==
    \/ InitRequest
    \/ AddTitleTemplate
    \/ IssueCreateRequest
    \/ IssueUpdateRequest
    \/ IssueDeleteRequest

SpecIssues == InitProject /\ [][NextIssues]_vars

\* C17: on an initialised project, List with no filters returns exactly
\* the issues that were created and not deleted: every issue folder with a
\* valid name and readable files, sorted by folder name ascending.
C17_ListReturnsAll ==
    read_manifest(manifestFile).some
    => /\ list_issues(dirs, files, manifestFile).ok
       /\ list_issues(dirs, files, manifestFile).issues
            = SortNames(ReadableIssues(dirs, files))

\* C17's case: an issue has been created, is readable on disk, and the
\* list that is returned is empty.
C17_Witness ==
    /\ CreateDone(last)
    /\ last.id \in ReadableIssues(dirs, files)
    /\ list_issues(dirs, files, manifestFile).ok
    /\ list_issues(dirs, files, manifestFile).issues = << >>

UpdateDone(l) == l.op = "UpdateIssue" /\ l.ok

\* what UpdateIssue keeps of an issue read before (old) and after (new)
\* a request with these options
KeepsUnsupplied(old, new, options) ==
    /\ ~old.err /\ ~new.err
    /\ options.title = Keep => new.title = old.title
    /\ options.description = Keep => new.description = old.description
    /\ options.status = Keep => new.metadata.status = old.metadata.status
    /\ options.priority = 0 => new.metadata.priority = old.metadata.priority
    /\ new.metadata.created_at = old.metadata.created_at
    /\ DOMAIN new.metadata.custom_fields
         = DOMAIN old.metadata.custom_fields \cup DOMAIN options.custom_fields
    /\ \A k \in DOMAIN new.metadata.custom_fields :
           new.metadata.custom_fields[k]
             = IF k \in DOMAIN options.custom_fields THEN options.custom_fields[k]
               ELSE old.metadata.custom_fields[k]

\* C18: a successful UpdateIssue changes only the fields its options give:
\* title, description, status and priority that are not supplied read as
\* before, createdAt is kept, and custom fields are merged.
C18_UpdateKeepsUnsupplied ==
    [][UpdateDone(last') =>
          KeepsUnsupplied(read_issue_from_disk(files, last'.id),
                          read_issue_from_disk(files', last'.id),
                          last'.options)]_vars

\* C18's case: an update that gives the status only has succeeded on an
\* issue that was created from the template, and the issue now reads with
\* another title than the one it was created with.
C18_Witness ==
    /\ UpdateDone(last)
    /\ last.options = [NoUpdate EXCEPT !.status = "closed"]
    /\ last.before.title = " Login bug "
    /\ read_issue_from_disk(files, last.id).metadata.status = "closed"
    /\ read_issue_from_disk(files, last.id).title = "Login bug"

\* the path lies under issues/<id>/
UnderIssue(p, id) == p[1] = "issues/" /\ p[2] = id

DeleteDone(l) == l.op = "DeleteIssue" /\ l.ok

\* C19: after a successful DeleteIssue(id) the folder issues/<id>/ is gone,
\* the saved manifest is the previous one without exactly the entries under
\* issues/<id>/, and every other folder, file and entry is unchanged.
C19_DeleteRemovesExactly ==
    [][DeleteDone(last') =>
          LET id == last'.id
              Other(f) == ~UnderIssue(f.path, id)
          IN  /\ IssueDir(id) \in dirs
              /\ dirs' = {d \in dirs : ~UnderIssue(d, id)}
              /\ DOMAIN files' = {p \in DOMAIN files : ~UnderIssue(p, id)}
              /\ \A p \in DOMAIN files' : files'[p] = files[p]
              /\ read_manifest(manifestFile').some
              /\ manifestFile'.managedFiles = SelectSeq(manifestFile.managedFiles, Other)]_vars

\* C19's case: one of two issues has been deleted; the other is still on
\* disk and in the manifest.
C19_Witness ==
    /\ DeleteDone(last)
    /\ \E id \in OpenIssueIds \ {last.id} :
           /\ id \in ReadableIssues(dirs, files)
           /\ \E i \in 1..Len(manifestFile.managedFiles) :
                  manifestFile.managedFiles[i].path = IssueMdPath(id)

-----------------------------------------------------------------------------
(* Priorities and statuses of issues under the configs a project may hold *)

\* the largest priorityLevels of a config
MaxLevels == 10

\* config.json as the user writes it: any number of priority levels, or a
\* default priority under defaults (in range, out of range, zero, not a
\* number)
PriorityConfigs ==
    {[DefaultConfig EXCEPT !.priority_levels = L] : L \in 0..MaxLevels}
    \cup {[DefaultConfig EXCEPT !.defaults = ("priority" :> p)] : p \in {"0", "2", "9", "high"}}

UserConfig == \E cfg \in PriorityConfigs : UserWrite(ConfigPath, ConfigJson(cfg))

\* requests with and without a priority and a status
PriorityCreateRequest ==
    \E priority \in {0, 1, 4}, status \in {Keep, "someday"}, overflow_checks \in BOOLEAN :
        CreateIssue([PlainOptions EXCEPT !.priority = priority, !.status = status],
                    IssueIdSeq[1], 1, overflow_checks)

PriorityUpdateRequest ==
    \E priority \in {0, 3}, status \in {Keep, "someday"}, now \in Present :
        UpdateIssue(IssueIdSeq[1], [NoUpdate EXCEPT !.priority = priority, !.status = status],
                    now)

PriorityDeleteRequest == DeleteIssue(IssueIdSeq[1])

NextPriority ==
    \/ InitRequest
    \/ UserConfig
    \/ PriorityCreateRequest
    \/ PriorityUpdateRequest
    \/ PriorityDeleteRequest

SpecPriority == InitProject /\ [][NextPriority]_vars

\* priorityLevels of the project: that of config.json, 3 without one
LevelsOf(fs) ==
    IF ConfigPath \in DOMAIN fs /\ fs[ConfigPath][1] = "config"
    THEN fs[ConfigPath][2].priority_levels
    ELSE DefaultPriorityLevels

\* C21: every issue written by CreateIssue or UpdateIssue has a priority
\* between 1 and the project's priorityLevels, however the priority was
\* resolved, while a status given in the request is stored as it is.
C21_PriorityStrictStatusLenient ==
    [][(CreateDone(last') \/ UpdateDone(last')) =>
          LET meta == MetadataOf(files', last'.id)
          IN  /\ meta.priority >= 1
              /\ meta.priority <= LevelsOf(files')
              /\ last'.options.status # Keep => meta.status = last'.options.status]_vars

\* C21's case: a CreateIssue without a priority has succeeded under a
\* config with three levels and the default priority "9", and the issue
\* holds priority 9.
C21_Witness ==
    /\ CreateDone(last)
    /\ last.options.priority = 0
    /\ LevelsOf(files) = DefaultPriorityLevels
    /\ MetadataOf(files, last.id).priority > DefaultPriorityLevels

\* no default priority can be taken from the config
NoUsableDefault(fs) ==
    \/ ConfigPath \notin DOMAIN fs
    \/ fs[ConfigPath][1] # "config"
    \/ "priority" \notin DOMAIN fs[ConfigPath][2].defaults
    \/ fs[ConfigPath][2].defaults["priority"] \notin {"0", "2", "9"}

\* an issue has just been created without a priority option and without
\* a usable default in the config
DefaultedCreate == CreateDone(last') /\ last'.options.priority = 0 /\ NoUsableDefault(files)

\* C27 as stated: CreateIssue with no priority option and no usable config
\* default stores ceil((L+1)/2) for L = priorityLevels in 1..MaxLevels, and
\* 1 for L = 0.
C27_AsStated ==
    [][DefaultedCreate =>
          LET L == LevelsOf(files)
              p == MetadataOf(files', last'.id).priority
          IN  /\ L = 0 => p = 1
              /\ L >= 1 => (2 * p >= L + 1 /\ 2 * (p - 1) < L + 1)]_vars

\* C27: CreateIssue with no priority option and no usable config default
\* stores floor((L+1)/2), the middle of an odd number of levels and the
\* lower middle of an even number, for L = priorityLevels in 1..MaxLevels,
\* and 1 for L = 0.
C27_MiddlePriority ==
    [][DefaultedCreate =>
          LET L == LevelsOf(files)
              p == MetadataOf(files', last'.id).priority
          IN  /\ L \in 0..MaxLevels
              /\ L = 0 => p = 1
              /\ L >= 1 => (2 * p <= L + 1 /\ 2 * (p + 1) > L + 1)]_vars

\* C27's case: an issue created without a priority under a config with an
\* even number of levels holds the lower middle priority.
C27_Witness ==
    /\ CreateDone(last)
    /\ last.options.priority = 0
    /\ LevelsOf(files) = MaxLevels
    /\ NoUsableDefault(files)
    /\ 2 * MetadataOf(files, last.id).priority \in {MaxLevels, MaxLevels + 1}

-----------------------------------------------------------------------------
(* The shape of manifest entries *)

\* M2 for one entry
HashMatchesType(f) ==
    /\ f.file_type = "file" => f.hash # EmptyHash
    /\ f.file_type = "directory" => f.hash = EmptyHash

\* C22: in every manifest the daemon has written, each entry of type file
\* has a non-empty hash and each entry of type directory an empty hash.
C22_HashMatchesType ==
    read_manifest(manifestFile).some
    => \A i \in 1..Len(manifestFile.managedFiles) :
           HashMatchesType(manifestFile.managedFiles[i])

\* C22's case: README.md on disk is not UTF-8, an Execute that does not
\* reset it has completed, and the manifest holds the file with an empty
\* hash.
C22_Witness ==
    /\ last.op = "Execute" /\ last.ok
    /\ <<"README.md", "", "">> \in DOMAIN files
    /\ files[<<"README.md", "", "">>] = InvalidUtf8
    /\ read_manifest(manifestFile).some
    /\ \E i \in 1..Len(manifestFile.managedFiles) :
           /\ manifestFile.managedFiles[i].path = <<"README.md", "", "">>
           /\ manifestFile.managedFiles[i].file_type = "file"
           /\ manifestFile.managedFiles[i].hash = EmptyHash

-----------------------------------------------------------------------------
(* ReconcileDisplayNumbers: who keeps a shared number *)

\* the readable issues that hold display number d
GroupOf(ds, fs, d) == {id \in ReadableIssues(ds, fs) : MetadataOf(fs, id).display_number = d}

\* the display numbers in use, without the 0 of legacy issues
SharedNumbers(ds, fs) ==
    {d \in DisplayNumbers(ds, fs) : d # 0 /\ Cardinality(GroupOf(ds, fs, d)) >= 2}

\* C23: after ReconcileDisplayNumbers, in every group of two or more issues
\* that shared a displayNumber > 0, an issue with the smallest createdAt
\* still has the number and every other issue of the group has another
\* number than before.
C23_OldestKeeps ==
    [][ReconcileDone(last') =>
          \A d \in SharedNumbers(dirs, files) :
              \E keeper \in GroupOf(dirs, files, d) :
                  /\ \A id \in GroupOf(dirs, files, d) :
                         MetadataOf(files, keeper).created_at
                           <= MetadataOf(files, id).created_at
                  /\ MetadataOf(files', keeper).display_number = d
                  /\ \A id \in GroupOf(dirs, files, d) \ {keeper} :
                         MetadataOf(files', id).display_number # d]_vars

\* C23's case: after a successful ReconcileDisplayNumbers an issue that was
\* rewritten by it (its updatedAt is the present, its createdAt is not)
\* holds the same displayNumber 1 as another issue.
C23_Witness ==
    /\ ReconcileDone(last)
    /\ \E a, b \in ReadableIssues(dirs, files) :
           /\ a # b
           /\ MetadataOf(files, a).display_number = 1
           /\ MetadataOf(files, b).display_number = 1
           /\ MetadataOf(files, b).created_at < MaxStamp
           /\ MetadataOf(files, b).updated_at = MaxStamp
           /\ MetadataOf(files, a).updated_at < MaxStamp

\* C24: ReconcileDisplayNumbers is deterministic: a run that completes
\* leaves the files that every other completing run from the same issues
\* leaves, whatever the order in which the folders are enumerated (k1) and
\* the groups are processed (k2).
C24_Deterministic ==
    [][ReconcileDone(last') =>
          \A k1 \in OrderChoices, k2 \in OrderChoices, now \in Present,
             overflow_checks \in BOOLEAN :
              LET out == reconcile_display_numbers(dirs, files, k1, k2, now, overflow_checks)
              IN  out.ok => out.fs = files']_vars

-----------------------------------------------------------------------------
(* Tracking and untracking of projects, one call after another *)

\* the paths of the requests: a symlink, its target, another project
TrackPaths == RequestPaths \cup {"/w/p1"}

NextUntrack ==
    \/ \E path \in TrackPaths, resolved \in BOOLEAN, now \in Stamps :
           TrackProject(path, resolved, now)
    \/ \E path \in TrackPaths, resolved \in BOOLEAN, now \in Stamps :
           UntrackProject(path, resolved, now)

SpecUntrack == InitRegistry /\ [][NextUntrack]_vars

\* the projects of projects.json, none when the file does not exist
ProjectsOf(file) == IF file.kind = "complete" THEN file.registry.projects ELSE NewRegistry.projects

\* C25: Untrack(path) removes the entry under the canonical path, or else
\* the one under the literal path, and no other entry; when neither key is
\* present it fails with ProjectNotFound and does not write the registry.
C25_UntrackRemovesOne ==
    [][last'.op = "Untrack" =>
          LET before == ProjectsOf(regFile)
              after == ProjectsOf(regFile')
              key == IF last'.id2 \in DOMAIN before THEN last'.id2 ELSE last'.id
          IN  IF key \in DOMAIN before
              THEN /\ last'.ok
                   /\ DOMAIN after = (DOMAIN before) \ {key}
                   /\ \A p \in DOMAIN after : after[p] = before[p]
              ELSE /\ ~last'.ok
                   /\ regFile' = regFile]_vars

\* C25's case: /w/link was tracked while it could not be resolved and
\* again when it could, so the registry held both keys; Untrack(/w/link)
\* has removed the canonical entry /w/p1 and left the literal one.
C25_Witness ==
    /\ last.op = "Untrack" /\ last.ok
    /\ last.id = "/w/link" /\ last.id2 = "/w/p1"
    /\ {"/w/link", "/w/p1"} \subseteq DOMAIN ProjectsOf(last.before)
    /\ "/w/link" \in DOMAIN ProjectsOf(regFile)
    /\ "/w/p1" \notin DOMAIN ProjectsOf(regFile)

-----------------------------------------------------------------------------
(* Restart and Shutdown requests to a running daemon *)

\* delay_seconds of the requests
Delays == {0, 1}

InitRestart ==
    /\ daemon \in {NewDaemon(exe_path) : exe_path \in BOOLEAN}
    /\ dirs = {}
    /\ files = EmptyFiles
    /\ manifestFile = NoManifest
    /\ last = Done("None", TRUE)
    /\ mig = MigIdle(create_registry)
    /\ regFile = AbsentFile
    /\ regTmp = AbsentFile
    /\ regLock = 0
    /\ tasks = [t \in TaskIds |-> IdleTask]
    /\ reader = IdleReader
    /\ serialReg = NewRegistry
    /\ reqs = [r \in RequestIds |-> IdleRequest]

NextRestart ==
    \/ \E i \in RestartIds, delay \in Delays : Restart(i, delay)
    \/ \E i \in RestartIds : RestartWake(i)
    \/ \E i \in RestartIds, ok \in BOOLEAN : RestartSpawn(i, ok)
    \/ \E i \in RestartIds : RestartSignal(i)
    \/ \E delay \in Delays : Shutdown(delay)
    \/ ShutdownWake
    \/ ShutdownSignal
    \/ ServerStop

SpecRestart == InitRestart /\ [][NextRestart]_vars

\* C26: on Restart the shutdown signal is sent only after the child process
\* was spawned; if the spawn fails, the task leaves the signal as it is and
\* the Restart request has reported failure to its caller.
C26_RestartAfterSpawn ==
    /\ [](\A i \in RestartIds :
              daemon.restarts[i].child = "failed" => daemon.restarts[i].response = "failure")
    /\ [][/\ (daemon'.signal = "Restart" /\ daemon.signal # "Restart")
               => \E i \in RestartIds : daemon.restarts[i].child = "spawned"
          /\ \A i \in RestartIds :
                 (daemon.restarts[i].child = "none" /\ daemon'.restarts[i].child = "failed")
                 => daemon'.signal = daemon.signal]_vars

\* C26's case: the spawn of the new process has failed, the signal is
\* None, the daemon is serving, and the Restart request was answered with
\* success.
C26_Witness ==
    \E i \in RestartIds :
        /\ daemon.restarts[i].child = "failed"
        /\ daemon.restarts[i].response = "success"
        /\ daemon.signal = "None"
        /\ daemon.serving

-----------------------------------------------------------------------------
(* Reading an issue back *)

\* what GetIssue returns for the issue of the last request
Got == get_issue(dirs', files', manifestFile', last'.id)

\* C28: GetIssue right after a successful CreateIssue (without a template)
\* or UpdateIssue returns exactly the title, description, status, priority
\* and custom fields that the request gave, also for titles and
\* descriptions with leading or trailing whitespace.
C28_RoundTrip ==
    [][((CreateDone(last') /\ last'.options.template = Keep) \/ UpdateDone(last')) =>
          /\ ~Got.err
          /\ last'.options.title # Keep => Got.title = last'.options.title
          /\ last'.options.description # Keep => Got.description = last'.options.description
          /\ last'.options.status # Keep => Got.metadata.status = last'.options.status
          /\ last'.options.priority # 0 => Got.metadata.priority = last'.options.priority
          /\ \A k \in DOMAIN last'.options.custom_fields :
                 /\ k \in DOMAIN Got.metadata.custom_fields
                 /\ Got.metadata.custom_fields[k] = last'.options.custom_fields[k]]_vars

\* C28's case: an issue was created with the title " Login bug " and the
\* description "Steps ", and GetIssue returns "Login bug" and "Steps".
C28_Witness ==
    /\ CreateDone(last)
    /\ last.options.title = " Login bug "
    /\ last.options.description = "Steps "
    /\ last.options.template = Keep
    /\ get_issue(dirs, files, manifestFile, last.id).title = "Login bug"
    /\ get_issue(dirs, files, manifestFile, last.id).description = "Steps"

-----------------------------------------------------------------------------
(* The classes of the Plan *)

\* the class the rule gives catalog path p
ExpectedClass(p) ==
    IF p \notin (dirs \cup DOMAIN files)
    THEN (IF manifestFile.exists
             /\ \E i \in 1..Len(manifestFile.managedFiles) :
                    manifestFile.managedFiles[i].path = p
          THEN "to_restore" ELSE "to_create")
    ELSE IF get_managed_files[p].file_type = "directory" THEN "up_to_date"
    ELSE IF compute_hash(files[p]) = compute_hash(get_managed_files[p].content)
    THEN "up_to_date"
    ELSE "to_reset"

\* the classes whose list in the plan holds path p
ClassesOf(plan, p) ==
    {c \in {"to_create", "to_restore", "to_reset", "up_to_date"} : p \in PathsOf(plan[c])}

\* C29: the Plan puts every catalog path into exactly one of toCreate,
\* toRestore, toReset, upToDate, the one the rule names, a toReset entry
\* carrying the hash of the file on disk, and every other disk path into
\* userFiles.
C29_PlanClassifies ==
    RootDir \in dirs =>
        \A order \in IterOrders :
            LET plan == build_reconciliation_plan(dirs, files, manifestFile, order)
            IN  /\ \A p \in CatalogPaths : ClassesOf(plan, p) = {ExpectedClass(p)}
                /\ \A i \in 1..Len(plan.to_reset) :
                       plan.to_reset[i].hash = compute_hash(files[plan.to_reset[i].path])
                /\ {f.path : f \in plan.user_files}
                     = ((dirs \ {RootDir}) \cup DOMAIN files) \ CatalogPaths

\* C29's case: README.md on disk is not UTF-8 and the plan lists it in
\* toReset with an empty hash.
C29_Witness ==
    /\ <<"README.md", "", "">> \in DOMAIN files
    /\ files[<<"README.md", "", "">>] = InvalidUtf8
    /\ \E order \in IterOrders :
           \E i \in 1..Len(build_reconciliation_plan(dirs, files, manifestFile, order).to_reset) :
               build_reconciliation_plan(dirs, files, manifestFile, order).to_reset[i]
                 = FileInfo(<<"README.md", "", "">>, "file", EmptyHash)

-----------------------------------------------------------------------------
(* C30: what Execute does with the paths of toRestore *)

\* the entries a manifest file holds for path p
EntriesAt(mf, p) ==
    IF mf.exists
    THEN {mf.managedFiles[i] : i \in {j \in 1..Len(mf.managedFiles) : mf.managedFiles[j].path = p}}
    ELSE {}

\* path p is on disk as the catalog defines it
Materialised(ds, fs, p) ==
    IF get_managed_files[p].file_type = "directory" THEN p \in ds
    ELSE p \in DOMAIN fs /\ fs[p] = get_managed_files[p].content

\* C30: a successful Execute materialises a path of toRestore if and only if
\* force is true or the path is in decisions.restore; otherwise the path is
\* reported in skipped, nothing is written at that path, and its manifest
\* entry is left as it was.
C30_RestoreIffChosen ==
    [][(last'.op = "Execute" /\ last'.ok) =>
          LET plan   == build_reconciliation_plan(dirs \cup {RootDir}, files, manifestFile,
                                                  CatalogOrders[1])
              result == ExecResult(dirs, files, manifestFile, last'.restore, last'.reset,
                                   last'.force, CatalogOrders[1])
          IN  \A p \in PathsOf(plan.to_restore) :
                  LET chosen == last'.force \/ p \in last'.restore
                  IN  /\ Materialised(dirs', files', p) <=> chosen
                      /\ p \in result.restored <=> chosen
                      /\ ~chosen =>
                            /\ p \in result.skipped
                            /\ p \notin dirs' \cup DOMAIN files'
                            /\ EntriesAt(manifestFile', p) = EntriesAt(manifestFile, p)]_vars

\* C30's case: an Execute without force whose only restore decision was
\* templates/README.md has completed; templates/ is on disk again while the
\* directories below it, which were not chosen, are still missing.
C30_Witness ==
    /\ last.op = "Execute"
    /\ last.ok
    /\ ~last.force
    /\ last.restore = {<<"templates/", "README.md", "">>}
    /\ <<"templates/", "", "">> \in dirs
    /\ <<"templates/", "issues/", "">> \notin dirs
    /\ <<"templates/", "docs/", "">> \notin dirs

-----------------------------------------------------------------------------
(* C31: what Execute does with the files of toReset *)

\* C31: a successful Execute overwrites a file of toReset with the catalog
\* content if and only if the path is in decisions.reset, whatever force is;
\* otherwise the user's file is unchanged, the path is reported in skipped,
\* and its manifest entry holds the hash of the user's current content.
C31_ResetIffChosen ==
    [][(last'.op = "Execute" /\ last'.ok) =>
          LET plan   == build_reconciliation_plan(dirs \cup {RootDir}, files, manifestFile,
                                                  CatalogOrders[1])
              result == ExecResult(dirs, files, manifestFile, last'.restore, last'.reset,
                                   last'.force, CatalogOrders[1])
          IN  \A p \in PathsOf(plan.to_reset) :
                  /\ p \in DOMAIN files'
                  /\ files'[p] = get_managed_files[p].content <=> p \in last'.reset
                  /\ p \in result.reset <=> p \in last'.reset
                  /\ p \notin last'.reset =>
                        /\ files'[p] = files[p]
                        /\ p \in result.skipped
                        /\ EntriesAt(manifestFile', p)
                             = {create_managed_file(p, compute_hash(files[p]), "file")}]_vars

\* C31's case: a forced Execute without a reset decision has completed and
\* README.md, which is not valid UTF-8, is still the user's file, its manifest
\* entry carrying the empty hash.
C31_Witness ==
    /\ last.op = "Execute"
    /\ last.ok
    /\ last.force
    /\ last.reset = {}
    /\ <<"README.md", "", "">> \in DOMAIN files
    /\ files[<<"README.md", "", "">>] = InvalidUtf8
    /\ EntriesAt(manifestFile, <<"README.md", "", "">>)
         = {create_managed_file(<<"README.md", "", "">>, EmptyHash, "file")}

-----------------------------------------------------------------------------
(* C32: file mutations, manifest save and failure within one request *)

\* Reconciliation that may fail or be cancelled, the user between the
\* requests, and CreateIssue and DeleteIssue requests served one at a time,
\* each taking its filesystem calls one by one
NextAbort ==
    \/ Settled /\ ExecuteRequest
    \/ Settled /\ ExecuteCancelledRequest
    \/ Settled /\ \E p \in TouchedPaths \cup {<<"issues", "", "">>} : UserDelete(p)
    \/ Settled /\ UserWrite(<<"issues", "", "">>, Text(""))
    \/ Settled /\ \E r \in RequestIds : Receive(r, "CreateIssue", IssueIdSeq[1], PlainOptions)
    \/ Settled /\ \E r \in RequestIds : Receive(r, "DeleteIssue", IssueIdSeq[1], << >>)
    \/ Settled /\ \E options \in {[NoUpdate EXCEPT !.status = "closed"]}, now \in Present :
                      UpdateIssue(IssueIdSeq[1], options, now)
    \/ \E r \in RequestIds : LoadManifest(r)
    \/ \E r \in RequestIds, now \in Present : NextNumber(r, now, TRUE)
    \/ \E r \in RequestIds : WriteIssueMd(r)
    \/ \E r \in RequestIds : WriteMetadata(r)
    \/ \E r \in RequestIds : RemoveFolder(r)
    \/ \E r \in RequestIds : OpenManifest(r)
    \/ \E r \in RequestIds : WriteManifest(r)

SpecAbort == InitProject /\ [][NextAbort]_vars

\* request r takes a step
Steps(r) == reqs'[r] # reqs[r]

\* the disk below .centy/ apart from the manifest changes
DiskChanges == dirs' # dirs \/ files' # files

\* every path that was on disk is still there
NothingRemoved == dirs \subseteq dirs' /\ DOMAIN files \subseteq DOMAIN files'

-----------------------------------------------------------------------------
(* C33, C34: which issues ReconcileDisplayNumbers rewrites *)

\* the issues of group d that have the smallest createdAt of the group
Oldest(ds, fs, d) ==
    {id \in GroupOf(ds, fs, d) :
        \A other \in GroupOf(ds, fs, d) :
            MetadataOf(fs, id).created_at <= MetadataOf(fs, other).created_at}

\* C33: when two or more issues of a group that shares a displayNumber > 0
\* have the smallest createdAt of the group, the one of them whose folder
\* name is smallest in string order has the number after
\* ReconcileDisplayNumbers, whatever the enumeration order.
C33_TieByFolderName ==
    [][ReconcileDone(last') =>
          \A d \in SharedNumbers(dirs, files) :
              Cardinality(Oldest(dirs, files, d)) >= 2 =>
                  MetadataOf(files', Head(AscIds(Oldest(dirs, files, d)))).display_number = d]_vars

\* C33's case: after a successful ReconcileDisplayNumbers issue a1 has been
\* rewritten and given another number, while b2, created at the same time,
\* holds displayNumber 1 and has not been rewritten.
C33_Witness ==
    /\ ReconcileDone(last)
    /\ {IssueIdSeq[1], IssueIdSeq[2]} \subseteq ReadableIssues(dirs, files)
    /\ MetadataOf(files, IssueIdSeq[1]).created_at = MetadataOf(files, IssueIdSeq[2]).created_at
    /\ MetadataOf(files, IssueIdSeq[1]).created_at < MaxStamp
    /\ MetadataOf(files, IssueIdSeq[2]).display_number = 1
    /\ MetadataOf(files, IssueIdSeq[2]).updated_at < MaxStamp
    /\ MetadataOf(files, IssueIdSeq[1]).display_number = 2
    /\ MetadataOf(files, IssueIdSeq[1]).updated_at = MaxStamp

\* the issues whose metadata.json the step rewrites with other content
Rewritten == {id \in ReadableIssues(dirs, files) : files'[MetadataPath(id)] # files[MetadataPath(id)]}

\* The numbers M+1 .. M+k are given to the rewritten issues, M being the
\* largest displayNumber on disk.  When M is 4294967295 no displayNumber is
\* M+1, so the numbers can be given to no issue at all.
GivenNext(k) ==
    IF U32Max \in DisplayNumbers(dirs, files) THEN k = 0
    ELSE {MetadataOf(files', id).display_number : id \in Rewritten}
           = (SetMax(DisplayNumbers(dirs, files)) + 1)..(SetMax(DisplayNumbers(dirs, files)) + k)

\* C34: a successful ReconcileDisplayNumbers changes no file but the
\* metadata.json of the issues it reassigns, gives these k issues the
\* numbers M+1 .. M+k, M being the largest displayNumber before the run,
\* and returns k.
C34_RewritesReassignedOnly ==
    [][ReconcileDone(last') =>
          LET k == Cardinality(Rewritten)
          IN  /\ DOMAIN files' = DOMAIN files
              /\ dirs' = dirs
              /\ \A p \in DOMAIN files :
                     files'[p] # files[p] => \E id \in Rewritten : p = MetadataPath(id)
              /\ \A id \in Rewritten : IsMetadataJson(files'[MetadataPath(id)])
              /\ GivenNext(k)
              /\ \A k1 \in OrderChoices, k2 \in OrderChoices, now \in Present :
                     LET out == reconcile_display_numbers(dirs, files, k1, k2, now, FALSE)
                     IN  out.fs = files' => out.count = k]_vars

\* C34's case: after a successful ReconcileDisplayNumbers an issue that the
\* run rewrote holds displayNumber 0 while another issue holds 4294967295.
C34_Witness ==
    /\ ReconcileDone(last)
    /\ \E a, b \in ReadableIssues(dirs, files) :
           /\ MetadataOf(files, a).display_number = U32Max
           /\ MetadataOf(files, b).display_number = 0
           /\ MetadataOf(files, b).created_at < MaxStamp
           /\ MetadataOf(files, b).updated_at = MaxStamp

-----------------------------------------------------------------------------
(* C35, C37: the path get_migration_path returns, and whether it returns *)

MaxPathVersions == 3

PathVersions == {VersionSeq[i] : i \in 1..(IF MaxPathVersions < 6 THEN MaxPathVersions ELSE 6)}

\* The registries explored: from each version at most one migration, to any
\* version; register accepts a migration whatever its two versions are.
PathRegistries ==
    {RegistryOf({[from |-> v, to |-> f[v]] : v \in {x \in PathVersions : f[x] # NoVersion}})
       : f \in [PathVersions -> PathVersions \cup {NoVersion}]}

InitPath ==
    /\ \E registry \in PathRegistries : mig = MigIdle(registry)
    /\ dirs = {}
    /\ files = EmptyFiles
    /\ manifestFile = NoManifest
    /\ last = Done("None", TRUE)
    /\ regFile = AbsentFile
    /\ regTmp = AbsentFile
    /\ regLock = 0
    /\ tasks = [t \in TaskIds |-> IdleTask]
    /\ reader = IdleReader
    /\ serialReg = NewRegistry
    /\ reqs = [r \in RequestIds |-> IdleRequest]
    /\ daemon = NewDaemon(TRUE)

NextPath ==
    \/ \E from \in PathVersions, to \in PathVersions : PathBegin(from, to)
    \/ PathStep

SpecPath == InitPath /\ [][NextPath]_vars

\* path is a connected chain that leads from version from to version to
IsChain(path, from, to, direction) ==
    IF path = << >> THEN from = to
    ELSE IF direction = "Up"
    THEN /\ path[1].from = from
         /\ \A i \in 1..(Len(path) - 1) : path[i + 1].from = path[i].to
         /\ path[Len(path)].to = to
    ELSE /\ path[1].to = from
         /\ \A i \in 1..(Len(path) - 1) : path[i + 1].to = path[i].from
         /\ path[Len(path)].from = to

\* the registry holds a chain from version from to version to
ChainExists(registry, from, to, direction) ==
    \E n \in 0..Len(registry) :
        \E idx \in [1..n -> 1..Len(registry)] :
            IsChain([i \in 1..n |-> registry[idx[i]]], from, to, direction)

\* C35: when get_migration_path returns a path, the path is a connected
\* chain that starts at the current version and ends exactly at the target
\* (Up through from and to, Down through to and from); when the registry
\* holds no such chain it fails with NoMigrationPath.
C35_PathEndsAtTarget ==
    mig.pc = "done" =>
        /\ mig.result = "success" => IsChain(mig.path, mig.from, mig.target, mig.direction)
        /\ ~ChainExists(mig.registry, mig.from, mig.target, mig.direction)
              => mig.result = "NoMigrationPath"

\* C35's case: get_migration_path has returned a path of one migration that
\* starts at the current version 0.0.0 and ends at 0.2.0, beyond the target
\* 0.1.0.
C35_Witness ==
    /\ mig.pc = "done"
    /\ mig.result = "success"
    /\ mig.from = <<0, 0, 0>>
    /\ mig.target = <<0, 1, 0>>
    /\ mig.path = <<[from |-> <<0, 0, 0>>, to |-> <<0, 2, 0>>]>>

\* the loop runs on: an iteration that can be made is made
SpecPathFair == InitPath /\ [][NextPath]_vars /\ WF_vars(PathStep)

\* C37: get_migration_path terminates for every registry and every pair
\* (current, target), also when the registry holds a migration whose to
\* version is not greater than its from version: a call that has entered
\* its loop returns.
C37_PathTerminates == (mig.pc = "walk") ~> (mig.pc = "done")

\* C37's case: a call is in its loop with more migrations pushed on its
\* path than a walk through distinct versions can push.
C37_Witness ==
    /\ mig.pc = "walk"
    /\ Len(mig.path) = MaxPathLen
    /\ \E i \in 1..Len(mig.registry) : ~SemVerLess(mig.registry[i].from, mig.registry[i].to)

-----------------------------------------------------------------------------
(* C36, C40: display numbers under requests served one at a time *)

\* an initialised project and the four issue operations, one after another
NextNumbers ==
    \/ InitRequest
    \/ CreateIssueRequest
    \/ \E id \in OpenIssueIds, now \in Present :
           UpdateIssue(id, [NoUpdate EXCEPT !.status = "closed"], now)
    \/ DeleteIssueRequest
    \/ ReconcileRequest

SpecNumbers == InitProject /\ [][NextNumbers]_vars

\* the issues readable before and after the step whose displayNumber differs
Renumbered ==
    {id \in ReadableIssues(dirs, files) \cap ReadableIssues(dirs', files') :
        MetadataOf(files', id).display_number # MetadataOf(files, id).display_number}

-----------------------------------------------------------------------------
(* C38: a tracking task started before an UntrackProject *)

\* UntrackProject call u has returned Ok: it saved the registry it changed
Untracked_Ok(u) ==
    /\ tasks[u].op = "Untrack"
    /\ tasks[u].pc = "done"
    /\ tasks[u].registry.updated_at = u

\* Requests that track and untrack projects.  A request that names a project
\* is issued only while no UntrackProject of that project has returned, so
\* that every tracking task was started by a request issued before.
NextLate ==
    \/ \E t \in TaskIds, path \in RequestPaths :
           /\ \A u \in TaskIds :
                  Untracked_Ok(u) => canonicalize(tasks[u].path) # canonicalize(path)
           /\ Spawn(t, "Track", path)
    \/ \E t \in TaskIds, path \in RequestPaths :
           /\ \A u \in TaskIds :
                  Untracked_Ok(u) => canonicalize(tasks[u].path) # canonicalize(path)
           /\ Spawn(t, "Untrack", path)
    \/ \E t \in TaskIds : Lock(t)
    \/ \E t \in TaskIds : Load(t)
    \/ \E t \in TaskIds : WriteBegin(t)
    \/ \E t \in TaskIds : WriteEnd(t)
    \/ \E t \in TaskIds : Rename(t)
    \/ \E t \in TaskIds : Unlock(t)

SpecLate == InitRegistry /\ [][NextLate]_vars

\* C38: once UntrackProject(P) has returned success, and while no later
\* request names P, P is absent from projects.json: no tracking task that
\* an earlier request started puts the entry back.
C38_UntrackedStaysAbsent ==
    \A u \in TaskIds :
        Untracked_Ok(u) => canonicalize(tasks[u].path) \notin DOMAIN ProjectsOf(regFile)

\* C38's case: UntrackProject(/w/link) has returned success, the tracking
\* task of an earlier request has then saved the registry, and /w/p1 is in
\* projects.json again.
C38_Witness ==
    \E u \in TaskIds, t \in TaskIds :
        /\ Untracked_Ok(u)
        /\ tasks[u].path = "/w/link"
        /\ tasks[t].op = "Track"
        /\ tasks[t].path = "/w/link"
        /\ tasks[t].pc = "done"
        /\ "/w/p1" \in DOMAIN ProjectsOf(regFile)

-----------------------------------------------------------------------------
(* C39: ReconcileDisplayNumbers run twice *)

\* C39: ReconcileDisplayNumbers is idempotent: a run directly after a
\* successful run returns 0 and leaves every file as it is, whatever the
\* enumeration order of either run (a build with overflow checks, when its
\* second run completes at all).
C39_SecondRunNoChange ==
    ReconcileDone(last) =>
        \A k1 \in OrderChoices, k2 \in OrderChoices, now \in Present,
           overflow_checks \in BOOLEAN :
            LET out == reconcile_display_numbers(dirs, files, k1, k2, now, overflow_checks)
            IN  /\ ~overflow_checks => out.ok
                /\ out.ok => out.count = 0 /\ out.fs = files

\* C39's case: after a successful ReconcileDisplayNumbers that wrapped
\* around, a renumbered issue and a legacy issue the run did not touch both
\* hold displayNumber 0.
C39_Witness ==
    /\ ReconcileDone(last)
    /\ U32Max \in DisplayNumbers(dirs, files)
    /\ \E a, b \in ReadableIssues(dirs, files) :
           /\ a # b
           /\ MetadataOf(files, a).display_number = 0
           /\ MetadataOf(files, b).display_number = 0
           /\ MetadataOf(files, a).updated_at = MaxStamp
           /\ MetadataOf(files, a).created_at < MaxStamp
           /\ MetadataOf(files, b).updated_at < MaxStamp
====
